---- MODULE Spec2Model ----
(***************************************************************************)
(* Delivery-tracking core of the Himalayan Fresh backend:                  *)
(*   - the Tracking collection and its four REST handlers                  *)
(*     (routes/tracking.js),                                               *)
(*   - the subscription-delivery dispatch that creates tracking records    *)
(*     (routes/subscriptionDeliveries.js),                                 *)
(*   - the read of a subscription with its effective delivery status       *)
(*     (routes/subscriptions.js),                                          *)
(*   - the Socket.IO rooms of index.js,                                    *)
(*   - the pure functions of the tools: the route densifier of the driver  *)
(*     simulator and the polyline codec (tools/decode_polyline.js).        *)
(* A handler is cut at its awaits: one action per database operation, and  *)
(* one for the continuation that emits and responds.  Node runs the code   *)
(* between two awaits without interruption, MongoDB applies one operation  *)
(* on one document atomically.                                             *)
(***************************************************************************)
EXTENDS Integers, Sequences, FiniteSets, TLC

VARIABLES
    trackings,      \* the Tracking collection, in insertion order (_id = index)
    subscriptions,  \* the Subscription collection, by _id
    deliveries,     \* the SubscriptionDelivery collection, by _id
    pc,             \* per request slot: the await the handler is parked at
    req,            \* per request slot: the handler's local variables
    resp,           \* per request slot: its last response, and the request it answers
    writes,         \* per request slot: collections its current request wrote, in order
    rooms,          \* per socket: the rooms it has joined
    connected,      \* the sockets that are connected
    inbox,          \* per socket: the events it was sent, in order
    subCount,       \* per socket and room: subscribe calls since it last left
    lastPub,        \* the last emit: its room, its event kind, who made it
    nPub,           \* number of emits so far; an event sent carries its number
    nReq,           \* number of requests and socket messages accepted so far
    now,            \* the clock, in ticks
    dense,          \* the local variables of a call of generateHighResolutionRoute
    codec,          \* the local variables of a call of decodePolyline
    addr,           \* the Address collection and the address router's requests
    sim             \* the driver simulator: its variables, its ticks, its requests

vars == << trackings, subscriptions, deliveries, pc, req, resp, writes,
           rooms, connected, inbox, subCount, lastPub, nPub, nReq, now,
           dense, codec, addr, sim >>

storeVars == << trackings, subscriptions, deliveries >>
hubVars == << rooms, connected, inbox, subCount, lastPub, nPub >>
otherVars == << dense, codec, addr, sim >>
routerVars == << storeVars, hubVars, pc, req, resp, writes, nReq, now >>

----------------------------------------------------------------------------
(* Bounds of the model *)

\* requests accepted in one run of Spec
MaxReq == 2
\* location updates accepted in one run of SpecBurst
MaxBurst == 3
\* location updates accepted in one run of SpecHistory (more than the history limit)
MaxHistReq == 102
\* requests and socket messages accepted in one run of SpecHub
MaxHubReq == 4
\* status updates accepted in one run of SpecSync
MaxSyncReq == 2
\* requests accepted in one run of SpecSerial
MaxSerialReq == 3
\* reads accepted in one run of SpecRead, and the day its clock stops
MaxReadReq == 3
MaxDay == 5

----------------------------------------------------------------------------
(* Values *)

\* an absent string (undefined / null), an absent sub-document, an absent date
Null == "null"
Absent == [absent |-> TRUE]
NoDate == 0

\* $slice: -100 of the history push
HistoryLimit == 100

\* assumed average speed in km/h of the ETA computation
AvgSpeedKmh == 30

\* identifiers: an order id that is no ObjectId, the _id of a subscription,
\* the _id of a subscription delivery of that subscription
OrderA == "ORD-1"
SubS == "64b0f0a1c2d3e4f5a6b7c8d9"
DelivD == "64b0f0a1c2d3e4f5a6b7c8e1"

DeliveryIds == {OrderA, SubS, DelivD}
SubscriptionIds == {SubS}
SubscriptionDeliveryIds == {DelivD}

Procs == {"r1", "r2", "r3"}
Sockets == {"k1", "k2"}

\* TrackingSchema.status enum
TrackingStatuses ==
    {"assigned", "picking_up", "en_route", "nearby", "arrived", "delivered"}

\* SubscriptionSchema.deliveryStatus enum
DeliveryStatuses == {"pending", "packed", "out_for_delivery", "nearby", "delivered"}

\* positions on a grid; 0 is falsy in the destination test of the ETA
Pos(lat, lng) == [latitude |-> lat, longitude |-> lng]

\* the currentLocation sub-document, and the body of a location report after
\* `heading || 0` and `speed || 0` (an absent heading or speed is 0); the
\* accuracy, which no handler writes, is left out
Location(lat, lng, heading, speed) ==
    [latitude |-> lat, longitude |-> lng, heading |-> heading, speed |-> speed]

----------------------------------------------------------------------------
(* Sequence helpers *)

Range(s) == {s[i] : i \in 1..Len(s)}

Min(a, b) == IF a <= b THEN a ELSE b

\* the last n elements of s (all of s when it is shorter)
LastN(s, n) ==
    IF Len(s) <= n THEN s ELSE SubSeq(s, Len(s) - n + 1, Len(s))

----------------------------------------------------------------------------
(* Documents and the Mongoose operations the handlers use *)

\* an absent number (route.distance, route.duration have no default)
NoNumber == 0

\* the route of a new document: no polyline, no points, no numbers, no eta
NoRoute ==
    [ polyline |-> Null, points |-> << >>, distance |-> NoNumber,
      duration |-> NoNumber, eta |-> NoDate ]

\* new Tracking({ orderId }): the schema defaults
NewTracking(orderId, t) ==
    [ orderId         |-> orderId,
      deliveryType    |-> "order",
      subscriptionId  |-> Null,
      status          |-> "assigned",
      currentLocation |-> Absent,
      origin          |-> Absent,
      destination     |-> Absent,
      route           |-> NoRoute,
      history         |-> << >>,
      lastUpdated     |-> t,
      createdAt       |-> t ]

\* Tracking.findOne({ orderId }): the _id of the first matching document in
\* natural (insertion) order, 0 when none matches
FindOneUnfiltered(coll, orderId) == IF Len(coll) > 0 THEN 1 ELSE 0

FindOne(coll, orderId) ==
    IF \E i \in 1..Len(coll) : coll[i].orderId = orderId
    THEN CHOOSE i \in 1..Len(coll) :
            /\ coll[i].orderId = orderId
            /\ \A j \in 1..(i - 1) : coll[j].orderId # orderId
    ELSE 0

\* the documents of the collection whose orderId is the given one
Matching(coll, orderId) == {i \in 1..Len(coll) : coll[i].orderId = orderId}

\* the enum validator of TrackingSchema.status: run on save, skipped for an
\* undefined value since the path is not required
Validate(doc) ==
    doc.status = Null \/ doc.status \in TrackingStatuses

\* document.save() of a loaded document: Mongoose sends only the modified
\* paths, as a $set on the document with that _id
SaveOverwrite(stored, copy, paths) == copy

SaveModified(stored, copy, paths) ==
    [f \in DOMAIN stored |-> IF f \in paths THEN copy[f] ELSE stored[f]]

\* $push: { history: { $each: [entry], $slice: -100 } }
PushNoSlice(history, entry) == Append(history, entry)

PushSliceDedupe(history, entry) ==
    IF \E i \in 1..Len(history) :
          /\ history[i].latitude = entry.latitude
          /\ history[i].longitude = entry.longitude
    THEN history
    ELSE LastN(Append(history, entry), HistoryLimit)

PushSlice(history, entry) ==
    LastN(Append(history, entry), HistoryLimit)

Abs(x) == IF x < 0 THEN -x ELSE x

\* calculateDistance (haversine, R = 6371000 m) on the model's grid. One grid
\* unit is a thousandth of a degree and coordinates run from 0 to 6 units; on
\* that grid the value of the formula, rounded to whole metres, depends only
\* on the two coordinate differences, and is tabulated by them
\* (row: difference of latitude, column: difference of longitude).
calculateDistance(lat1, lng1, lat2, lng2) ==
    LET metres == << <<   0, 111, 222, 334, 445, 556, 667 >>,
                     << 111, 157, 249, 352, 458, 567, 676 >>,
                     << 222, 249, 315, 401, 497, 599, 703 >>,
                     << 334, 352, 401, 472, 556, 648, 746 >>,
                     << 445, 458, 497, 556, 629, 712, 802 >>,
                     << 556, 567, 599, 648, 712, 786, 868 >>,
                     << 667, 676, 703, 746, 802, 868, 944 >> >>
    IN  metres[Abs(lat2 - lat1) + 1][Abs(lng2 - lng1) + 1]

\* newEta of the location handler, in clock ticks of one second;
\* null when the destination has no (truthy) coordinates
NewEta(pos, destination, t) ==
    IF destination # Absent /\ destination.latitude # 0 /\ destination.longitude # 0
    THEN t + ((calculateDistance(pos.latitude, pos.longitude,
                                 destination.latitude, destination.longitude)
               * 3600) \div (1000 * AvgSpeedKmh))
    ELSE NoDate

\* the handler's local variables before a request
NoReq ==
    [ op |-> Null, orderId |-> Null, docId |-> 0, doc |-> Absent, paths |-> {},
      status |-> Null, pos |-> Absent, newEta |-> NoDate, t |-> NoDate,
      sub |-> Absent, subPaths |-> {}, syncErr |-> FALSE, delivery |-> Absent,
      body |-> Absent ]

\* the paths of a loaded document that the handler's assignments changed
ModifiedPaths(loaded, copy) == {f \in DOMAIN copy : copy[f] # loaded[f]}

\* io.to(room).emit(event): every socket in the room is sent the event once
RecipientsAll(room) == connected

Recipients(room) == {k \in connected : room \in rooms[k]}

\* socket.join / socket.leave: a socket's rooms are a Set
JoinToggle(rs, room) == IF room \in rs THEN rs \ {room} ELSE rs \cup {room}

Join(rs, room) == rs \cup {room}

Leave(rs, room) == rs \ {room}

\* the room name `order:${deliveryId}`
Room(deliveryId) == << "order", deliveryId >>

EmitTwice(by, room, event) ==
    /\ inbox' = [k \in Sockets |->
                    IF k \in Recipients(room)
                    THEN inbox[k] \o << [seq |-> nPub + 1] @@ event,
                                        [seq |-> nPub + 2] @@ event >>
                    ELSE inbox[k]]
    /\ lastPub' = [room |-> room, kind |-> event.kind, by |-> by]
    /\ nPub' = nPub + 2
    /\ UNCHANGED << rooms, connected, subCount >>

Emit(by, room, event) ==
    /\ inbox' = [k \in Sockets |->
                    IF k \in Recipients(room)
                    THEN Append(inbox[k], [seq |-> nPub + 1] @@ event)
                    ELSE inbox[k]]
    /\ lastPub' = [room |-> room, kind |-> event.kind, by |-> by]
    /\ nPub' = nPub + 1
    /\ UNCHANGED << rooms, connected, subCount >>

----------------------------------------------------------------------------
(* Bookkeeping shared by the handlers *)

\* a request is accepted by an idle slot
Accept(p) ==
    /\ pc[p] = "idle"
    /\ nReq' = nReq + 1

\* the handler responds and its slot is free again
Respond(p, code, r) ==
    /\ pc' = [pc EXCEPT ![p] = "idle"]
    /\ req' = [req EXCEPT ![p] = NoReq]
    /\ resp' = [resp EXCEPT ![p] =
                   [code |-> code, op |-> r.op, orderId |-> r.orderId,
                    status |-> r.status, pos |-> r.pos]]
    /\ writes' = [writes EXCEPT ![p] = << >>]
    /\ UNCHANGED otherVars

\* the handler parks at its next await
Park(p, at, locals) ==
    /\ pc' = [pc EXCEPT ![p] = at]
    /\ req' = [req EXCEPT ![p] = locals]
    /\ UNCHANGED << resp, otherVars >>

\* the handler parks without having written
ParkOnly(p, at, locals) ==
    /\ Park(p, at, locals)
    /\ UNCHANGED writes

Wrote(p, collection) == writes' = [writes EXCEPT ![p] = Append(@, collection)]

----------------------------------------------------------------------------
(* GET /api/tracking/:orderId *)

\* findOne, and on a miss the construction of the default document
GetFindNoLookup(p, orderId) ==
    /\ Accept(p)
    /\ ParkOnly(p, "get_save",
                [NoReq EXCEPT !.op = "get", !.orderId = orderId,
                              !.doc = NewTracking(orderId, now)])
    /\ now' = now + 1
    /\ UNCHANGED << storeVars, hubVars >>

GetFind(p, orderId) ==
    /\ Accept(p)
    /\ IF FindOne(trackings, orderId) # 0
       THEN /\ Respond(p, 200, [NoReq EXCEPT !.op = "get", !.orderId = orderId])
            /\ UNCHANGED now
       ELSE /\ ParkOnly(p, "get_save",
                        [NoReq EXCEPT !.op = "get", !.orderId = orderId,
                                      !.doc = NewTracking(orderId, now)])
            /\ now' = now + 1
    /\ UNCHANGED << storeVars, hubVars >>

\* tracking.save() of the new document: an insert
GetSave(p) ==
    /\ pc[p] = "get_save"
    /\ trackings' = Append(trackings, req[p].doc)
    /\ Respond(p, 200, req[p])
    /\ UNCHANGED << subscriptions, deliveries, hubVars, nReq, now >>

----------------------------------------------------------------------------
(* POST /api/tracking/:orderId/start *)

\* the assignments of the start handler to the document it loaded or made
StartAssignKeepStatus(loaded, origin, destination, routePoints, polyline, distance, duration, t) ==
    [loaded EXCEPT
        !.origin = origin,
        !.destination = destination,
        !.route = [polyline |-> polyline, points |-> routePoints,
                   distance |-> distance, duration |-> duration,
                   eta |-> t + duration],
        !.currentLocation = Location(origin.latitude, origin.longitude, 0, 0),
        !.lastUpdated = t]

StartAssign(loaded, origin, destination, routePoints, polyline, distance, duration, t) ==
    [loaded EXCEPT
        !.origin = origin,
        !.destination = destination,
        !.route = [polyline |-> polyline, points |-> routePoints,
                   distance |-> distance, duration |-> duration,
                   eta |-> t + duration],
        !.currentLocation = Location(origin.latitude, origin.longitude, 0, 0),
        !.status = "picking_up",
        !.lastUpdated = t]

\* findOne, then the assignments up to tracking.save()
StartFind(p, orderId, origin, destination, routePoints, polyline, distance, duration) ==
    /\ Accept(p)
    /\ LET i == FindOne(trackings, orderId)
           loaded == IF i = 0 THEN NewTracking(orderId, now) ELSE trackings[i]
           doc == StartAssign(loaded, origin, destination, routePoints,
                              polyline, distance, duration, now)
       IN  ParkOnly(p, "start_save",
                    [NoReq EXCEPT !.op = "start", !.orderId = orderId, !.docId = i,
                                  !.doc = doc, !.paths = ModifiedPaths(loaded, doc),
                                  !.t = now,
                                  !.body = [origin |-> origin, destination |-> destination,
                                            routePoints |-> routePoints,
                                            polyline |-> polyline,
                                            distance |-> distance,
                                            duration |-> duration]])
    /\ now' = now + 1
    /\ UNCHANGED << storeVars, hubVars >>

\* tracking.save(): an insert of a new document, else a $set of the modified paths
StartSave(p) ==
    /\ pc[p] = "start_save"
    /\ trackings' =
         IF req[p].docId = 0
         THEN Append(trackings, req[p].doc)
         ELSE [trackings EXCEPT ![req[p].docId] =
                  SaveModified(@, req[p].doc, req[p].paths)]
    /\ Wrote(p, "tracking")
    /\ Park(p, "start_emit", req[p])
    /\ UNCHANGED << subscriptions, deliveries, hubVars, nReq, now >>

\* io.to(`order:${orderId}`).emit('trackingStarted', trackingObj); res.json
StartEmit(p) ==
    /\ pc[p] = "start_emit"
    /\ Emit(p, Room(req[p].orderId),
            [kind |-> "trackingStarted", orderId |-> req[p].orderId,
             tracking |-> req[p].doc])
    /\ Respond(p, 200, req[p])
    /\ UNCHANGED << storeVars, nReq, now >>

----------------------------------------------------------------------------
(* PATCH /api/tracking/:orderId/location *)

\* findOne(...).select('destination'), the 404, and the ETA
LocationFind(p, orderId, pos) ==
    /\ Accept(p)
    /\ LET i == FindOne(trackings, orderId)
       IN  IF i = 0
           THEN /\ Respond(p, 404, [NoReq EXCEPT !.op = "location",
                                                 !.orderId = orderId, !.pos = pos])
                /\ UNCHANGED now
           ELSE /\ ParkOnly(p, "location_update",
                            [NoReq EXCEPT !.op = "location", !.orderId = orderId,
                                          !.pos = pos, !.t = now,
                                          !.newEta = NewEta(pos, trackings[i].destination, now)])
                /\ now' = now + 1
    /\ UNCHANGED << storeVars, hubVars >>

\* the document after the $set and $push of findOneAndUpdate
LocationWrite(doc, r) ==
    [doc EXCEPT !.currentLocation = Location(r.pos.latitude, r.pos.longitude,
                                             r.pos.heading, r.pos.speed),
                !.route.eta = r.newEta,
                !.lastUpdated = r.t,
                !.history = PushSlice(@, [latitude  |-> r.pos.latitude,
                                          longitude |-> r.pos.longitude,
                                          timestamp |-> r.t])]

\* findOneAndUpdate({ orderId }, { $set, $push }, { new: true }): one atomic
\* operation on the first matching document
LocationUpdate(p) ==
    /\ pc[p] = "location_update"
    /\ LET i == FindOne(trackings, req[p].orderId)
       IN  /\ i # 0
           /\ trackings' = [trackings EXCEPT ![i] = LocationWrite(@, req[p])]
           /\ Park(p, "location_emit",
                   [req[p] EXCEPT !.docId = i, !.doc = LocationWrite(trackings[i], req[p])])
    /\ Wrote(p, "tracking")
    /\ UNCHANGED << subscriptions, deliveries, hubVars, nReq, now >>

\* io.to(`order:${orderId}`).emit('driverLocation', {...}); res.json
LocationEmit(p) ==
    /\ pc[p] = "location_emit"
    /\ Emit(p, Room(req[p].orderId),
            [kind |-> "driverLocation", orderId |-> req[p].orderId,
             latitude |-> req[p].pos.latitude, longitude |-> req[p].pos.longitude,
             heading |-> req[p].doc.currentLocation.heading,
             speed |-> req[p].doc.currentLocation.speed,
             eta |-> req[p].doc.route.eta, timestamp |-> req[p].doc.lastUpdated])
    /\ Respond(p, 200, req[p])
    /\ UNCHANGED << storeVars, nReq, now >>

----------------------------------------------------------------------------
(* PATCH /api/tracking/:orderId/status *)

\* the order of the handler's awaits after each of its phases
StatusAfterSyncFirst(phase) ==
    CASE phase = "find" -> "status_subfind"
      [] phase = "sync" -> "status_save"
      [] phase = "save" -> "status_emit"

StatusAfter(phase) ==
    CASE phase = "find" -> "status_save"
      [] phase = "save" -> "status_subfind"
      [] phase = "sync" -> "status_emit"

\* if (tracking.deliveryType === 'subscription' || orderId.length === 24)
SyncApplies(doc, orderId) ==
    doc.deliveryType = "subscription" \/ Len(orderId) = 24

\* the sync is skipped without an await when its condition is false
StatusNext(phase, doc, orderId) ==
    IF StatusAfter(phase) = "status_subfind" /\ ~SyncApplies(doc, orderId)
    THEN StatusAfter("sync")
    ELSE StatusAfter(phase)

\* statusMap[status] || 'pending'
statusMap(status) ==
    CASE status = "assigned"   -> "packed"
      [] status = "picking_up" -> "packed"
      [] status = "en_route"   -> "out_for_delivery"
      [] status = "nearby"     -> "nearby"
      [] status = "arrived"    -> "nearby"
      [] status = "delivered"  -> "delivered"
      [] OTHER                 -> "pending"

\* seconds in a day, the unit of setDate(getDate() + n)
DaySeconds == 86400

\* the switch on subscription.plan
PlanDaysNoWeekly(plan) ==
    CASE plan = "daily"     -> 1
      [] plan = "alternate" -> 2
      [] OTHER              -> 1

PlanDays(plan) ==
    CASE plan = "daily"     -> 1
      [] plan = "alternate" -> 2
      [] plan = "weekly"    -> 7
      [] OTHER              -> 1

\* the assignments to the loaded subscription
SyncAssign(sub, status, t) ==
    IF statusMap(status) = "delivered"
    THEN [sub EXCEPT !.deliveryStatus = "delivered",
                     !.lastDeliveredDate = t,
                     !.deliveriesInCycle = @ + 1,
                     !.nextDelivery = t + PlanDays(sub.plan) * DaySeconds]
    ELSE [sub EXCEPT !.deliveryStatus = statusMap(status)]

\* findOne, the 404, and the assignments up to tracking.save()
StatusFind(p, orderId, status) ==
    /\ Accept(p)
    /\ LET i == FindOne(trackings, orderId)
           doc == [trackings[i] EXCEPT !.status = status, !.lastUpdated = now]
       IN  IF i = 0
           THEN /\ Respond(p, 404, [NoReq EXCEPT !.op = "status",
                                                 !.orderId = orderId, !.status = status])
                /\ UNCHANGED now
           ELSE /\ ParkOnly(p, StatusNext("find", doc, orderId),
                            [NoReq EXCEPT !.op = "status", !.orderId = orderId,
                                          !.docId = i, !.doc = doc, !.status = status,
                                          !.paths = ModifiedPaths(trackings[i], doc)])
                /\ now' = now + 1
    /\ UNCHANGED << storeVars, hubVars >>

\* tracking.save(): validation, then a $set of the modified paths; a
\* validation error is caught by the handler and answered with 500
StatusSave(p) ==
    /\ pc[p] = "status_save"
    /\ IF Validate(req[p].doc)
       THEN /\ trackings' = [trackings EXCEPT ![req[p].docId] =
                                SaveModified(@, req[p].doc, req[p].paths)]
            /\ Wrote(p, "tracking")
            /\ Park(p, StatusNext("save", req[p].doc, req[p].orderId), req[p])
       ELSE /\ Respond(p, 500, req[p])
            /\ UNCHANGED trackings
    /\ UNCHANGED << subscriptions, deliveries, hubVars, nReq, now >>

\* try { ... } catch (subErr) { console.log(...) } around the sync: whether
\* an error thrown inside it leaves the catch
RethrownAlways(syncErr) == syncErr

Rethrown(syncErr) == FALSE

\* Subscription.findById(orderId) and the assignments to the subscription;
\* nothing found leaves the sync without a write, and the lookup may throw
\* (a database error, or a CastError for an id that is no ObjectId)
StatusSubFind(p) ==
    /\ pc[p] = "status_subfind"
    /\ \/ /\ req[p].orderId \in DOMAIN subscriptions
          /\ LET loaded == subscriptions[req[p].orderId]
                 sub == SyncAssign(loaded, req[p].status, now)
             IN  ParkOnly(p, "status_subsave",
                          [req[p] EXCEPT !.sub = sub,
                                         !.subPaths = ModifiedPaths(loaded, sub)])
          /\ now' = now + 1
       \/ /\ req[p].orderId \notin DOMAIN subscriptions
          /\ ParkOnly(p, StatusAfter("sync"), req[p])
          /\ UNCHANGED now
       \/ /\ ParkOnly(p, StatusAfter("sync"), [req[p] EXCEPT !.syncErr = TRUE])
          /\ UNCHANGED now
    /\ UNCHANGED << storeVars, hubVars, nReq >>

\* subscription.save(), which may throw
StatusSubSave(p) ==
    /\ pc[p] = "status_subsave"
    /\ \/ /\ subscriptions' = [subscriptions EXCEPT ![req[p].orderId] =
                                  SaveModified(@, req[p].sub, req[p].subPaths)]
          /\ Wrote(p, "subscription")
          /\ Park(p, StatusAfter("sync"), req[p])
       \/ /\ ParkOnly(p, StatusAfter("sync"), [req[p] EXCEPT !.syncErr = TRUE])
          /\ UNCHANGED subscriptions
    /\ UNCHANGED << trackings, deliveries, hubVars, nReq, now >>

\* io.to(`order:${orderId}`).emit('statusUpdate', {...}); res.json
StatusEmit(p) ==
    /\ pc[p] = "status_emit"
    /\ IF Rethrown(req[p].syncErr)
       THEN /\ Respond(p, 500, req[p])
            /\ UNCHANGED hubVars
       ELSE /\ Emit(p, Room(req[p].orderId),
                    [kind |-> "statusUpdate", orderId |-> req[p].orderId,
                     status |-> req[p].status, timestamp |-> req[p].doc.lastUpdated])
            /\ Respond(p, 200, req[p])
    /\ UNCHANGED << storeVars, nReq, now >>

----------------------------------------------------------------------------
(* PATCH /api/subscription-deliveries/:id/status *)

\* SubscriptionDelivery.findOne, the 404, and the assignments; for
\* out_for_delivery the construction of the tracking document
DispatchFind(p, id, status) ==
    /\ Accept(p)
    /\ IF id \notin DOMAIN deliveries
       THEN /\ Respond(p, 404, [NoReq EXCEPT !.op = "dispatch", !.orderId = id])
            /\ UNCHANGED now
       ELSE LET loaded == deliveries[id]
                delivery == [loaded EXCEPT !.status = status]
                doc == [NewTracking(id, now) EXCEPT
                          !.deliveryType = "subscription",
                          !.subscriptionId = loaded.subscriptionId,
                          !.status = "assigned",
                          !.destination = loaded.deliveryAddress]
            IN  /\ IF status = "out_for_delivery"
                   THEN ParkOnly(p, "dispatch_tracking",
                                 [NoReq EXCEPT !.op = "dispatch", !.orderId = id,
                                               !.doc = doc, !.delivery = delivery])
                   ELSE ParkOnly(p, "dispatch_save",
                                 [NoReq EXCEPT !.op = "dispatch", !.orderId = id,
                                               !.delivery = delivery])
                /\ now' = now + 1
    /\ UNCHANGED << storeVars, hubVars >>

\* tracking.save() of the new tracking document; delivery.trackingId
DispatchTracking(p) ==
    /\ pc[p] = "dispatch_tracking"
    /\ trackings' = Append(trackings, req[p].doc)
    /\ Wrote(p, "tracking")
    /\ Park(p, "dispatch_save",
            [req[p] EXCEPT !.delivery.trackingId = Len(trackings) + 1])
    /\ UNCHANGED << subscriptions, deliveries, hubVars, nReq, now >>

\* delivery.save(); res.json
DispatchSave(p) ==
    /\ pc[p] = "dispatch_save"
    /\ deliveries' = [deliveries EXCEPT ![req[p].orderId] =
                         SaveModified(@, req[p].delivery,
                                      ModifiedPaths(@, req[p].delivery))]
    /\ Respond(p, 200, req[p])
    /\ UNCHANGED << trackings, subscriptions, hubVars, nReq, now >>

----------------------------------------------------------------------------
(* GET /api/subscriptions/:id *)

\* date.setHours(0, 0, 0, 0): the start of the date's day; a null date stays null
Day(t) == IF t = NoDate THEN NoDate ELSE (t \div DaySeconds) * DaySeconds

\* effectiveDeliveryStatus before the delivery-day promotion
EffectiveStatus(sub, t) ==
    LET today == Day(t)
        nextDelivery == Day(sub.nextDelivery)
        lastDelivered == Day(sub.lastDeliveredDate)
        stored == IF sub.deliveryStatus = Null THEN "pending" ELSE sub.deliveryStatus
    IN  IF stored = "delivered" /\ lastDelivered # NoDate /\ nextDelivery # NoDate
        THEN IF today >= lastDelivered /\ today < nextDelivery THEN "delivered"
             ELSE IF today >= nextDelivery THEN "pending"
             ELSE stored
        ELSE stored

\* if (nextDelivery && today.getTime() === nextDelivery.getTime()
\*     && effectiveDeliveryStatus === 'pending')
Promotes(sub, t) ==
    /\ sub.nextDelivery # NoDate
    /\ Day(t) = Day(sub.nextDelivery)
    /\ EffectiveStatus(sub, t) = "pending"

\* findById, the 404, the effective status, and on the delivery day of a
\* pending subscription the assignment of packed up to subscription.save()
SubGetFind(p, id) ==
    /\ Accept(p)
    /\ IF id \notin DOMAIN subscriptions
       THEN Respond(p, 404, [NoReq EXCEPT !.op = "subget", !.orderId = id])
       ELSE LET loaded == subscriptions[id]
                sub == [loaded EXCEPT !.deliveryStatus = "packed"]
            IN  IF Promotes(loaded, now)
                THEN ParkOnly(p, "subget_save",
                              [NoReq EXCEPT !.op = "subget", !.orderId = id,
                                            !.status = "packed", !.sub = sub,
                                            !.subPaths = ModifiedPaths(loaded, sub)])
                ELSE Respond(p, 200, [NoReq EXCEPT !.op = "subget", !.orderId = id,
                                                   !.status = EffectiveStatus(loaded, now)])
    /\ UNCHANGED << storeVars, hubVars, now >>

\* subscription.save(); res.json with effectiveDeliveryStatus packed
SubGetSave(p) ==
    /\ pc[p] = "subget_save"
    /\ subscriptions' = [subscriptions EXCEPT ![req[p].orderId] =
                            SaveModified(@, req[p].sub, req[p].subPaths)]
    /\ Respond(p, 200, req[p])
    /\ UNCHANGED << trackings, deliveries, hubVars, nReq, now >>

----------------------------------------------------------------------------
(* Socket.IO: io.on('connection') of index.js *)

\* a client connects: a new socket, in no room
Connect(k) ==
    /\ k \notin connected
    /\ nReq' = nReq + 1
    /\ connected' = connected \cup {k}
    /\ UNCHANGED << otherVars, storeVars, pc, req, resp, writes, rooms, inbox, subCount,
                    lastPub, nPub, now >>

\* socket.on('subscribe')
Subscribe(k, deliveryId) ==
    /\ k \in connected
    /\ nReq' = nReq + 1
    /\ rooms' = [rooms EXCEPT ![k] = Join(@, Room(deliveryId))]
    /\ subCount' = [subCount EXCEPT ![k][deliveryId] = @ + 1]
    /\ UNCHANGED << otherVars, storeVars, pc, req, resp, writes, connected, inbox,
                    lastPub, nPub, now >>

\* socket.on('unsubscribe')
Unsubscribe(k, deliveryId) ==
    /\ k \in connected
    /\ nReq' = nReq + 1
    /\ rooms' = [rooms EXCEPT ![k] = Leave(@, Room(deliveryId))]
    /\ subCount' = [subCount EXCEPT ![k][deliveryId] = 0]
    /\ UNCHANGED << otherVars, storeVars, pc, req, resp, writes, connected, inbox,
                    lastPub, nPub, now >>

\* the rooms of a socket that disconnected: Socket.IO removes it from all
RoomsKept(rs) == rs

RoomsAfterDisconnect(rs) == {}

\* socket.on('disconnect')
Disconnect(k) ==
    /\ k \in connected
    /\ nReq' = nReq + 1
    /\ connected' = connected \ {k}
    /\ rooms' = [rooms EXCEPT ![k] = RoomsAfterDisconnect(@)]
    /\ subCount' = [subCount EXCEPT ![k] = [d \in DeliveryIds |-> 0]]
    /\ UNCHANGED << otherVars, storeVars, pc, req, resp, writes, inbox, lastPub, nPub, now >>

\* socket.on('driverLocation'): the relay to the room of
\* data.deliveryId || data.orderId
DriverLocation(k, deliveryId, pos, deliveryType, status) ==
    /\ k \in connected
    /\ nReq' = nReq + 1
    /\ Emit(k, Room(deliveryId),
            [kind |-> "driverLocation", orderId |-> deliveryId,
             deliveryId |-> deliveryId,
             deliveryType |-> IF deliveryType = Null THEN "order" ELSE deliveryType,
             latitude |-> pos.latitude, longitude |-> pos.longitude,
             heading |-> pos.heading, speed |-> pos.speed,
             status |-> IF status = Null THEN "en_route" ELSE status,
             timestamp |-> now])
    /\ now' = now + 1
    /\ UNCHANGED << otherVars, storeVars, pc, req, resp, writes >>

----------------------------------------------------------------------------
(* generateHighResolutionRoute of the driver simulator *)

\* Latitudes of the model, in whole units along one meridian, Metre units to
\* the metre. A route point lies on a whole metre, or at 0 or Tiny: two
\* distinct latitudes so close that calculateDistanceMeters gives 0 for them
\* (in doubles sin(dLat/2)^2 underflows to 0 for a difference under about
\* 1e-162 degrees).
Metre == 1000
Tiny == 1

\* calculateDistanceMeters along the meridian, to the nearest metre
calculateDistanceMeters(lat1, lng1, lat2, lng2) ==
    (Abs(lat2 - lat1) + Metre \div 2) \div Metre

\* interpolatePoint, the fraction given as numerator and denominator
interpolatePoint(start, end, num, den) ==
    [lat |-> start.lat + ((end.lat - start.lat) * num) \div den,
     lng |-> start.lng + ((end.lng - start.lng) * num) \div den]

\* the loop of getPointAtDistance from segment i on, and the copy of the last
\* point after it
RECURSIVE PointFromSegment(_, _, _, _)
PointFromSegment(routePoints, targetDistance, i, accumulatedDistance) ==
    IF i > Len(routePoints) - 1
    THEN routePoints[Len(routePoints)]
    ELSE LET start == routePoints[i]
             end == routePoints[i + 1]
             segmentDistance ==
                 calculateDistanceMeters(start.lat, start.lng, end.lat, end.lng)
             distanceIntoSegment == targetDistance - accumulatedDistance
         IN  IF accumulatedDistance + segmentDistance >= targetDistance
             THEN IF segmentDistance > 0
                  THEN interpolatePoint(start, end,
                                        Min(distanceIntoSegment, segmentDistance),
                                        segmentDistance)
                  ELSE interpolatePoint(start, end, 0, 1)
             ELSE PointFromSegment(routePoints, targetDistance, i + 1,
                                   accumulatedDistance + segmentDistance)

getPointAtDistance(routePoints, targetDistance) ==
    PointFromSegment(routePoints, targetDistance, 1, 0)

\* the sum of the segment lengths
RECURSIVE TotalDistance(_)
TotalDistance(routePoints) ==
    IF Len(routePoints) < 2
    THEN 0
    ELSE calculateDistanceMeters(routePoints[1].lat, routePoints[1].lng,
                                 routePoints[2].lat, routePoints[2].lng)
         + TotalDistance(Tail(routePoints))

\* speedMps * (updateIntervalMs / 1000), in metres
DistancePerUpdate(speedKmh, updateIntervalMs) ==
    (speedKmh * updateIntervalMs) \div 3600

\* Math.ceil(a / b) for a >= 0, b > 0
Ceil(a, b) == (a + b - 1) \div b

NoCall == [phase |-> "idle"]

\* the call: the early return for fewer than 2 points, the total distance
\* and the number of points
DensifyCall(routePoints, speedKmh, updateIntervalMs) ==
    /\ dense.phase = "idle"
    /\ dense' =
         IF Len(routePoints) < 2
         THEN [phase |-> "done", routePoints |-> routePoints,
               speedKmh |-> speedKmh, updateIntervalMs |-> updateIntervalMs,
               result |-> routePoints]
         ELSE [phase |-> "loop", routePoints |-> routePoints,
               speedKmh |-> speedKmh, updateIntervalMs |-> updateIntervalMs,
               distancePerUpdate |-> DistancePerUpdate(speedKmh, updateIntervalMs),
               numPoints |-> Ceil(TotalDistance(routePoints),
                                  DistancePerUpdate(speedKmh, updateIntervalMs)),
               i |-> 0, highResPoints |-> << >>]
    /\ UNCHANGED << routerVars, codec, addr, sim >>

\* one pass of the loop `for (let i = 0; i <= numPoints; i++)`
DensifyPoint ==
    /\ dense.phase = "loop"
    /\ dense.i <= dense.numPoints
    /\ dense' = [dense EXCEPT
                    !.highResPoints =
                        Append(@, getPointAtDistance(dense.routePoints,
                                                     dense.i * dense.distancePerUpdate)),
                    !.i = @ + 1]
    /\ UNCHANGED << routerVars, codec, addr, sim >>

\* after the loop: the final destination is pushed when the last generated
\* point is more than 1 m from it
DensifyReturn ==
    /\ dense.phase = "loop"
    /\ dense.i > dense.numPoints
    /\ LET lastOriginal == dense.routePoints[Len(dense.routePoints)]
           generated == dense.highResPoints
           lastGenerated == generated[Len(generated)]
           result ==
               IF \/ generated = << >>
                  \/ calculateDistanceMeters(lastGenerated.lat, lastGenerated.lng,
                                             lastOriginal.lat, lastOriginal.lng) > 1
               THEN Append(generated, lastOriginal)
               ELSE generated
       IN  dense' = [phase |-> "done", routePoints |-> dense.routePoints,
                     speedKmh |-> dense.speedKmh,
                     updateIntervalMs |-> dense.updateIntervalMs,
                     result |-> result]
    /\ UNCHANGED << routerVars, codec, addr, sim >>

----------------------------------------------------------------------------
(* The polyline codec of tools/decode_polyline.js.  A string is the sequence
   of its char codes, a point holds its coordinates in units of 1e-5 degree
   (Math.round(point.lat * 1e5) on encoding, lat / 1e5 on decoding), and the
   bitwise operators work on 32-bit two's complement integers. *)

\* ~x
Not32(x) == (-1) - x

\* x << 1: the 32-bit value of 2 * x
Shl1(x) ==
    IF x >= 2^30 THEN ((x - 2^30) - 2^30) * 2
    ELSE IF x < -(2^30) THEN ((x + 2^30) + 2^30) * 2
    ELSE x * 2

\* chunk << shift for a chunk of 5 bits: the shift count is taken modulo 32
\* and the bits shifted beyond bit 31 are lost
Shl32(chunk, shift) ==
    LET s == shift % 32
        kept == chunk % 2^(32 - s)
        Times(x) == IF x = 0 THEN 0 ELSE x * 2^s
    IN  IF s <= 26
        THEN chunk * 2^s
        ELSE IF kept >= 2^(31 - s)
        THEN (Times(kept - 2^(31 - s)) - 2^30) - 2^30
        ELSE Times(kept)

\* the low 31 bits of x
Low31(x) == IF x >= 0 THEN x ELSE (x + 2^30) + 2^30

RECURSIVE OrBits(_, _, _)
OrBits(a, b, n) ==
    IF n = 0
    THEN 0
    ELSE (IF a % 2 = 1 \/ b % 2 = 1 THEN 1 ELSE 0)
         + 2 * OrBits(a \div 2, b \div 2, n - 1)

\* a | b
Or32(a, b) ==
    LET low == OrBits(Low31(a), Low31(b), 31)
    IN  IF a < 0 \/ b < 0 THEN (low - 2^30) - 2^30 ELSE low

\* String.fromCharCode(x): the code is x modulo 2^16
fromCharCode(x) == x % 65536

\* the loop of encodeNumber and the character after it
RECURSIVE EncodeChunks(_)
EncodeChunks(sgn_num) ==
    IF sgn_num >= 32
    THEN << fromCharCode((32 + (sgn_num % 32)) + 63) >>
         \o EncodeChunks(sgn_num \div 32)
    ELSE << fromCharCode(sgn_num + 63) >>

\* sgn_num as encodeNumber is written, and with the inversion of negative
\* numbers left out
SignedNoInvert(num) == Shl1(num)

Signed(num) == IF num < 0 THEN Not32(Shl1(num)) ELSE Shl1(num)

encodeNumber(num) == EncodeChunks(Signed(num))

\* the loop of encodePolyline over the coordinates
RECURSIVE EncodeFrom(_, _, _)
EncodeFrom(coordinates, prevLat, prevLng) ==
    IF coordinates = << >>
    THEN << >>
    ELSE LET point == Head(coordinates)
         IN  encodeNumber(point.lat - prevLat)
             \o encodeNumber(point.lng - prevLng)
             \o EncodeFrom(Tail(coordinates), point.lat, point.lng)

encodePolyline(coordinates) == EncodeFrom(coordinates, 0, 0)

\* encoded.charCodeAt(index): NaN beyond the end of the string
NaN == -1
charCodeAt(encoded, index) ==
    IF index < Len(encoded) THEN encoded[index + 1] ELSE NaN

\* (b & 0x1f) for b = code - 63; NaN & 0x1f is 0
Chunk(code) == IF code = NaN THEN 0 ELSE (code - 63) % 32

\* the test `b >= 0x20` of the do-while loops, and one that lets NaN pass
ContinuesOnNaN(code) == code = NaN \/ code - 63 >= 32

Continues(code) == code # NaN /\ code - 63 >= 32

\* (result & 1) ? ~(result >> 1) : (result >> 1)
Delta(result) ==
    IF result % 2 = 1 THEN Not32(result \div 2) ELSE result \div 2

\* decodePolyline(encoded): the early return for the empty string and the
\* locals before the loop; coordinates is the argument of encodePolyline
\* when the string comes from it
DecodeCall(encoded, encodedFrom, coordinates) ==
    /\ codec.phase = "idle"
    /\ codec' = [phase |-> IF encoded = << >> THEN "done" ELSE "while",
                 encoded |-> encoded, encodedFrom |-> encodedFrom,
                 coordinates |-> coordinates,
                 index |-> 0, lat |-> 0, lng |-> 0, shift |-> 0, result |-> 0,
                 points |-> << >>]
    /\ UNCHANGED << routerVars, dense, addr, sim >>

\* the test of `while (index < encoded.length)`
DecodeWhile ==
    /\ codec.phase = "while"
    /\ codec' = IF codec.index < Len(codec.encoded)
                THEN [codec EXCEPT !.phase = "lat", !.shift = 0, !.result = 0]
                ELSE [codec EXCEPT !.phase = "done"]
    /\ UNCHANGED << routerVars, dense, addr, sim >>

\* one pass of a do-while loop, and what follows the loop when it ends:
\* after the latitude the longitude loop, after the longitude the push
DecodeChunk ==
    /\ codec.phase \in {"lat", "lng"}
    /\ LET code == charCodeAt(codec.encoded, codec.index)
           result == Or32(codec.result, Shl32(Chunk(code), codec.shift))
       IN  codec' =
             IF Continues(code)
             THEN [codec EXCEPT !.index = @ + 1, !.result = result,
                                !.shift = @ + 5]
             ELSE IF codec.phase = "lat"
             THEN [codec EXCEPT !.index = @ + 1, !.lat = @ + Delta(result),
                                !.phase = "lng", !.shift = 0, !.result = 0]
             ELSE [codec EXCEPT !.index = @ + 1,
                                !.lng = @ + Delta(result),
                                !.points = Append(@, [lat |-> codec.lat,
                                                      lng |-> codec.lng + Delta(result)]),
                                !.phase = "while", !.shift = 0, !.result = 0]
    /\ UNCHANGED << routerVars, dense, addr, sim >>

----------------------------------------------------------------------------
(* The address router of routes/addresses.js.  Its state is one record: the
   Address collection in insertion order, and per request slot the await
   the handler is parked at and its local variables. *)

AddressProcs == {"a1", "a2"}

NoLocal == [userId |-> Null]

NoAddresses ==
    [ docs |-> << >>, pc |-> [p \in AddressProcs |-> "idle"],
      local |-> [p \in AddressProcs |-> NoLocal], nextId |-> 1, nReq |-> 0 ]

\* Address.find({ userId }), in the collection's order
OfUser(docs, userId) == SelectSeq(docs, LAMBDA d : d.userId = userId)

\* the documents matching { _id: id, userId }
Owned(docs, id, userId) == SelectSeq(docs, LAMBDA d : d.id = id /\ d.userId = userId)

\* doc.save() of a loaded document: a $set of the modified paths on the
\* document with its _id, nothing when that document is gone
SaveAddress(docs, loaded, copy) ==
    [i \in DOMAIN docs |->
        IF docs[i].id = loaded.id
        THEN SaveModified(docs[i], copy, ModifiedPaths(loaded, copy))
        ELSE docs[i]]

\* POST /: new Address({..., userId}) and countDocuments({ userId })
AddressCount(p, userId) ==
    /\ addr.pc[p] = "idle"
    /\ addr' = [addr EXCEPT
                   !.pc[p] = "create_save",
                   !.local[p] = [userId |-> userId,
                                 existing |-> Len(OfUser(addr.docs, userId))],
                   !.nReq = @ + 1]
    /\ UNCHANGED << routerVars, dense, codec, sim >>

\* if (existing == 0) a.isDefault = true; a.save(); 201
AddressCreateSave(p) ==
    /\ addr.pc[p] = "create_save"
    /\ addr' = [addr EXCEPT
                   !.docs = Append(@, [id |-> addr.nextId,
                                       userId |-> addr.local[p].userId,
                                       isDefault |-> addr.local[p].existing = 0]),
                   !.nextId = @ + 1,
                   !.pc[p] = "idle", !.local[p] = NoLocal]
    /\ UNCHANGED << routerVars, dense, codec, sim >>

\* DELETE /:id: findOneAndDelete({ _id, userId }), the 404, and the test of
\* a.isDefault
AddressDelete(p, id, userId) ==
    /\ addr.pc[p] = "idle"
    /\ LET found == Owned(addr.docs, id, userId)
       IN  addr' =
             IF found = << >>
             THEN [addr EXCEPT !.nReq = @ + 1]
             ELSE [addr EXCEPT
                      !.docs = SelectSeq(@, LAMBDA d : d.id # id),
                      !.pc[p] = IF found[1].isDefault THEN "delete_find" ELSE "idle",
                      !.local[p] = IF found[1].isDefault THEN found[1] ELSE NoLocal,
                      !.nReq = @ + 1]
    /\ UNCHANGED << routerVars, dense, codec, sim >>

\* const next = await Address.findOne({ userId: a.userId }); if (next) ...
AddressDeleteFind(p) ==
    /\ addr.pc[p] = "delete_find"
    /\ LET rest == OfUser(addr.docs, addr.local[p].userId)
       IN  addr' =
             IF rest = << >>
             THEN [addr EXCEPT !.pc[p] = "idle", !.local[p] = NoLocal]
             ELSE [addr EXCEPT !.pc[p] = "delete_save", !.local[p] = rest[1]]
    /\ UNCHANGED << routerVars, dense, codec, sim >>

\* next.isDefault = true; await next.save()
AddressDeleteSave(p) ==
    /\ addr.pc[p] = "delete_save"
    /\ addr' = [addr EXCEPT
                   !.docs = SaveAddress(@, addr.local[p],
                                        [addr.local[p] EXCEPT !.isDefault = TRUE]),
                   !.pc[p] = "idle", !.local[p] = NoLocal]
    /\ UNCHANGED << routerVars, dense, codec, sim >>

\* PATCH /:id/default: findOne({ _id, userId }) and the 404
AddressDefaultFind(p, id, userId) ==
    /\ addr.pc[p] = "idle"
    /\ LET found == Owned(addr.docs, id, userId)
       IN  addr' =
             IF found = << >>
             THEN [addr EXCEPT !.nReq = @ + 1]
             ELSE [addr EXCEPT !.pc[p] = "default_clear", !.local[p] = found[1],
                               !.nReq = @ + 1]
    /\ UNCHANGED << routerVars, dense, codec, sim >>

\* await Address.updateMany({ userId: a.userId }, { isDefault: false })
AddressDefaultClear(p) ==
    /\ addr.pc[p] = "default_clear"
    /\ addr' = [addr EXCEPT
                   !.docs = [i \in DOMAIN @ |->
                               IF @[i].userId = addr.local[p].userId
                               THEN [@[i] EXCEPT !.isDefault = FALSE]
                               ELSE @[i]],
                   !.pc[p] = "default_save"]
    /\ UNCHANGED << routerVars, dense, codec, sim >>

\* a.isDefault = true; await a.save()
AddressDefaultSave(p) ==
    /\ addr.pc[p] = "default_save"
    /\ addr' = [addr EXCEPT
                   !.docs = SaveAddress(@, addr.local[p],
                                        [addr.local[p] EXCEPT !.isDefault = TRUE]),
                   !.pc[p] = "idle", !.local[p] = NoLocal]
    /\ UNCHANGED << routerVars, dense, codec, sim >>

----------------------------------------------------------------------------
(* Initial states *)

\* a stored subscription: new Subscription({...}) with the schema defaults
NewSubscription(plan, t) ==
    [ plan |-> plan, status |-> "active", deliveryStatus |-> "pending",
      lastDeliveredDate |-> NoDate, nextDelivery |-> t, deliveriesInCycle |-> 0,
      cancelOtp |-> Null, cancelOtpExpires |-> NoDate,
      reviveOtp |-> Null, reviveOtpExpires |-> NoDate, userId |-> "u1" ]

\* a stored delivery instance: new SubscriptionDelivery({...}), status scheduled
NewDelivery(subscriptionId, address) ==
    [ subscriptionId |-> subscriptionId, status |-> "scheduled",
      trackingId |-> 0, deliveryAddress |-> address ]

\* the inputs the requests are drawn from
Origin == Pos(1, 1)
Destination == Pos(5, 5)
Positions == {Location(2, 1, 90, 8), Location(4, 5, 0, 0)}
Duration == 600
Distance == 2000
Polyline == "_p~iF~ps|U_ulLnnqC"
RoutePoints == << [lat |-> 1, lng |-> 1], [lat |-> 5, lng |-> 5] >>
StatusInputs == {"en_route", "bogus", Null}

\* history of n earlier location updates, stamped 1..n
EarlierHistory(n) ==
    [i \in 1..n |-> [latitude |-> Origin.latitude, longitude |-> Origin.longitude,
                     timestamp |-> i]]

\* a record as startTracking and n location updates leave it
StartedTracking(orderId, n) ==
    [NewTracking(orderId, 1) EXCEPT
        !.origin = Origin, !.destination = Destination,
        !.currentLocation = Location(Origin.latitude, Origin.longitude, 0, 0),
        !.status = "picking_up",
        !.route = [polyline |-> Polyline, points |-> RoutePoints,
                   distance |-> Distance, duration |-> Duration,
                   eta |-> 1 + Duration],
        !.history = EarlierHistory(n), !.lastUpdated = n + 1]

\* no call of a tool in progress, no address stored, no simulator running
InitOthers ==
    /\ dense = NoCall
    /\ codec = NoCall
    /\ addr = NoAddresses
    /\ sim = NoCall

InitRequests ==
    /\ pc = [p \in Procs |-> "idle"]
    /\ req = [p \in Procs |-> NoReq]
    /\ resp = [p \in Procs |->
                [code |-> 0, op |-> Null, orderId |-> Null,
                 status |-> Null, pos |-> Absent]]
    /\ writes = [p \in Procs |-> << >>]
    /\ nReq = 0

InitHub ==
    /\ rooms = [k \in Sockets |-> {}]
    /\ connected = Sockets
    /\ inbox = [k \in Sockets |-> << >>]
    /\ subCount = [k \in Sockets |-> [d \in DeliveryIds |-> 0]]
    /\ lastPub = [room |-> Room(Null), kind |-> Null, by |-> Null]
    /\ nPub = 0

InitCollections ==
    /\ subscriptions = [s \in SubscriptionIds |-> NewSubscription("weekly", 1)]
    /\ deliveries = [d \in SubscriptionDeliveryIds |-> NewDelivery(SubS, Destination)]

\* the server with no request in progress: the Tracking collection is empty,
\* or holds the record of a started delivery whose id is a subscription's
Init ==
    /\ InitRequests
    /\ InitOthers
    /\ InitHub
    /\ InitCollections
    /\ trackings \in {<< >>, << StartedTracking(SubS, 1) >>}
    /\ now = 3

----------------------------------------------------------------------------
(* Spec: the REST handlers, two requests at a time *)

Handlers == {"r1", "r2"}

Continue(p) ==
    \/ GetSave(p)
    \/ StartSave(p)
    \/ StartEmit(p)
    \/ LocationUpdate(p)
    \/ LocationEmit(p)
    \/ StatusSave(p)
    \/ StatusSubFind(p)
    \/ StatusSubSave(p)
    \/ StatusEmit(p)
    \/ DispatchTracking(p)
    \/ DispatchSave(p)

GetTracking ==
    \E p \in Handlers, id \in DeliveryIds :
        nReq < MaxReq /\ GetFind(p, id)

StartTracking ==
    \E p \in Handlers, id \in DeliveryIds :
        nReq < MaxReq /\ StartFind(p, id, Origin, Destination, RoutePoints, Polyline, Distance, Duration)

UpdateLocation ==
    \E p \in Handlers, id \in DeliveryIds, pos \in Positions :
        nReq < MaxReq /\ LocationFind(p, id, pos)

UpdateStatus ==
    \E p \in Handlers, id \in DeliveryIds, st \in StatusInputs :
        nReq < MaxReq /\ StatusFind(p, id, st)

Dispatch ==
    \E p \in Handlers, id \in SubscriptionDeliveryIds :
        nReq < MaxReq /\ DispatchFind(p, id, "out_for_delivery")

Next ==
    \/ GetTracking
    \/ StartTracking
    \/ UpdateLocation
    \/ UpdateStatus
    \/ Dispatch
    \/ \E p \in Handlers : Continue(p)

Spec == Init /\ [][Next]_vars

----------------------------------------------------------------------------
(* SpecBurst: concurrent location updates of one delivery, on a history that
   is empty or one entry short of its limit *)

InitBurst ==
    /\ InitRequests
    /\ InitOthers
    /\ InitHub
    /\ InitCollections
    /\ \E n \in {0, HistoryLimit - 1} :
         /\ trackings = << StartedTracking(OrderA, n) >>
         /\ now = n + 2

BurstUpdateLocation ==
    \E p \in Procs, pos \in Positions :
        nReq < MaxBurst /\ LocationFind(p, OrderA, pos)

NextBurst ==
    \/ BurstUpdateLocation
    \/ \E p \in Procs : LocationUpdate(p)
    \/ \E p \in Procs : LocationEmit(p)

SpecBurst == InitBurst /\ [][NextBurst]_vars

----------------------------------------------------------------------------
(* SpecHistory: one driver reporting its position along a route, one request
   after the other *)

Driver == "r1"

\* the position the driver reports in its n-th request
RoutePoint(n) == Location(1 + (n % 5), 1 + ((n \div 5) % 5), 0, 0)

InitHistory ==
    /\ InitRequests
    /\ InitOthers
    /\ InitHub
    /\ InitCollections
    /\ trackings = << StartedTracking(OrderA, 0) >>
    /\ now = 2

DriverUpdateLocation ==
    nReq < MaxHistReq /\ LocationFind(Driver, OrderA, RoutePoint(nReq))

NextHistory ==
    \/ DriverUpdateLocation
    \/ LocationUpdate(Driver)
    \/ LocationEmit(Driver)

SpecHistory == InitHistory /\ [][NextHistory]_vars

----------------------------------------------------------------------------
(* SpecHub: two sockets and one REST request at a time, on two deliveries *)

HubIds == {OrderA, SubS}
HubHandler == "r1"

InitSockets ==
    /\ InitRequests
    /\ InitOthers
    /\ InitHub
    /\ InitCollections
    /\ trackings = << StartedTracking(OrderA, 0), StartedTracking(SubS, 0) >>
    /\ now = 2

HubConnect == \E k \in Sockets : nReq < MaxHubReq /\ Connect(k)

HubSubscribe ==
    \E k \in Sockets, id \in HubIds : nReq < MaxHubReq /\ Subscribe(k, id)

HubUnsubscribe ==
    \E k \in Sockets, id \in HubIds : nReq < MaxHubReq /\ Unsubscribe(k, id)

HubDisconnect == \E k \in Sockets : nReq < MaxHubReq /\ Disconnect(k)

HubDriverLocation ==
    \E k \in Sockets, id \in HubIds :
        nReq < MaxHubReq /\ DriverLocation(k, id, Location(2, 1, 90, 8), Null, Null)

HubStartTracking ==
    \E id \in HubIds :
        nReq < MaxHubReq /\ StartFind(HubHandler, id, Origin, Destination,
                                     RoutePoints, Polyline, Distance, Duration)

HubUpdateLocation ==
    \E id \in HubIds : nReq < MaxHubReq /\ LocationFind(HubHandler, id, Location(2, 1, 90, 8))

HubUpdateStatus ==
    \E id \in HubIds : nReq < MaxHubReq /\ StatusFind(HubHandler, id, "en_route")

NextHub ==
    \/ HubConnect
    \/ HubSubscribe
    \/ HubUnsubscribe
    \/ HubDisconnect
    \/ HubDriverLocation
    \/ HubStartTracking
    \/ HubUpdateLocation
    \/ HubUpdateStatus
    \/ StartSave(HubHandler)
    \/ StartEmit(HubHandler)
    \/ LocationUpdate(HubHandler)
    \/ LocationEmit(HubHandler)
    \/ StatusSave(HubHandler)
    \/ StatusSubFind(HubHandler)
    \/ StatusSubSave(HubHandler)
    \/ StatusEmit(HubHandler)

SpecHub == InitSockets /\ [][NextHub]_vars

----------------------------------------------------------------------------
(* SpecSync: status updates, two at a time, on a delivery whose id is a
   subscription's and on a dispatched delivery instance; the subscription
   has any plan *)

\* SubscriptionSchema.plan enum
Plans == {"daily", "alternate", "weekly", "custom"}

\* the deliveries and the statuses of the requests
SyncIds == {SubS, DelivD}
SyncStatusInputs == {"en_route", "delivered"}

\* the record the dispatch of a delivery instance creates
DispatchedTracking(id, subscriptionId, t) ==
    [NewTracking(id, t) EXCEPT
        !.deliveryType = "subscription",
        !.subscriptionId = subscriptionId,
        !.status = "assigned",
        !.destination = Destination]

InitSync ==
    /\ InitRequests
    /\ InitOthers
    /\ InitHub
    /\ \E plan \in Plans :
         subscriptions = [s \in SubscriptionIds |-> NewSubscription(plan, 1)]
    /\ deliveries = [d \in SubscriptionDeliveryIds |->
                        [NewDelivery(SubS, Destination) EXCEPT
                            !.status = "out_for_delivery", !.trackingId = 3]]
    /\ trackings = << StartedTracking(OrderA, 0), StartedTracking(SubS, 0),
                      DispatchedTracking(DelivD, SubS, 2) >>
    /\ now = 3

SyncUpdateStatus ==
    \E p \in Handlers, id \in SyncIds, st \in SyncStatusInputs :
        nReq < MaxSyncReq /\ StatusFind(p, id, st)

NextSync ==
    \/ SyncUpdateStatus
    \/ \E p \in Handlers : StatusSave(p)
    \/ \E p \in Handlers : StatusSubFind(p)
    \/ \E p \in Handlers : StatusSubSave(p)
    \/ \E p \in Handlers : StatusEmit(p)

SpecSync == InitSync /\ [][NextSync]_vars

----------------------------------------------------------------------------
(* SpecSerial: the REST handlers of the tracking router, one request after
   the other, starting with no record *)

Serial == "r1"
SerialIds == {OrderA, SubS}

\* the bodies of the start requests: with and without route points and polyline
StartBodies ==
    { [origin |-> Origin, destination |-> Destination, routePoints |-> RoutePoints,
       polyline |-> Polyline, distance |-> Distance, duration |-> Duration],
      [origin |-> Pos(2, 2), destination |-> Pos(4, 4), routePoints |-> << >>,
       polyline |-> Null, distance |-> Distance + 500, duration |-> Duration + 300] }

InitSerial ==
    /\ InitRequests
    /\ InitOthers
    /\ InitHub
    /\ InitCollections
    /\ trackings = << >>
    /\ now = 1

SerialGetTracking ==
    \E id \in SerialIds : nReq < MaxSerialReq /\ GetFind(Serial, id)

SerialStartTracking ==
    \E id \in SerialIds, b \in StartBodies :
        /\ nReq < MaxSerialReq
        /\ StartFind(Serial, id, b.origin, b.destination, b.routePoints,
                     b.polyline, b.distance, b.duration)

SerialUpdateLocation ==
    \E id \in SerialIds, pos \in Positions :
        nReq < MaxSerialReq /\ LocationFind(Serial, id, pos)

SerialUpdateStatus ==
    \E id \in SerialIds, st \in {"en_route", "delivered"} :
        nReq < MaxSerialReq /\ StatusFind(Serial, id, st)

NextSerial ==
    \/ SerialGetTracking
    \/ SerialStartTracking
    \/ SerialUpdateLocation
    \/ SerialUpdateStatus
    \/ GetSave(Serial)
    \/ StartSave(Serial)
    \/ StartEmit(Serial)
    \/ LocationUpdate(Serial)
    \/ LocationEmit(Serial)
    \/ StatusSave(Serial)
    \/ StatusSubFind(Serial)
    \/ StatusSubSave(Serial)
    \/ StatusEmit(Serial)

SpecSerial == InitSerial /\ [][NextSerial]_vars

----------------------------------------------------------------------------
(* SpecRead: reads of a subscription, one after the other, over several days *)

Reader == "r1"

\* the instant at an hour of a day
At(day, hour) == day * DaySeconds + hour * 3600

\* a subscription as the sync and PUT /:id can leave it: delivered only with
\* a lastDeliveredDate, nextDelivery on any day
InitRead ==
    /\ InitRequests
    /\ InitOthers
    /\ InitHub
    /\ \E st \in DeliveryStatuses, last \in {NoDate, At(2, 9)},
          next \in {At(3, 9), At(4, 7)}, n \in {0, 1} :
         /\ st = "delivered" => last # NoDate
         /\ (n = 1) <=> (last # NoDate)
         /\ subscriptions =
              [s \in SubscriptionIds |->
                  [NewSubscription("daily", At(1, 9)) EXCEPT
                      !.deliveryStatus = st, !.lastDeliveredDate = last,
                      !.nextDelivery = next, !.deliveriesInCycle = n]]
    /\ deliveries = [d \in SubscriptionDeliveryIds |-> NewDelivery(SubS, Destination)]
    /\ trackings = << >>
    /\ now = At(2, 12)

ReadSubscription ==
    \E id \in SubscriptionIds \cup {OrderA} :
        nReq < MaxReadReq /\ SubGetFind(Reader, id)

\* the clock: half a day passes
HalfDayPasses ==
    /\ now < At(MaxDay, 0)
    /\ now' = now + At(0, 12)
    /\ UNCHANGED << otherVars, storeVars, pc, req, resp, writes, hubVars, nReq >>

NextRead ==
    \/ ReadSubscription
    \/ SubGetSave(Reader)
    \/ HalfDayPasses

SpecRead == InitRead /\ [][NextRead]_vars

----------------------------------------------------------------------------
(* SpecEta: one driver reporting positions with and without heading and
   speed, one request after the other, on a record whose destination has
   non-zero coordinates and on one whose destination lies on longitude 0 *)

MaxEtaReq == 3
EtaDriver == "r1"
EtaIds == {OrderA, SubS}

\* positions at 629 m, 401 m and 111 m from Destination
EtaPositions ==
    { Location(c[1], c[2], m[1], m[2]) :
        c \in {<<1, 1>>, <<3, 2>>, <<4, 5>>}, m \in {<<0, 0>>, <<90, 8>>} }

InitEta ==
    /\ InitRequests
    /\ InitOthers
    /\ InitHub
    /\ InitCollections
    /\ trackings = << StartedTracking(OrderA, 0),
                      [StartedTracking(SubS, 0) EXCEPT !.destination = Pos(3, 0)] >>
    /\ now = 2

EtaUpdateLocation ==
    \E id \in EtaIds, pos \in EtaPositions :
        nReq < MaxEtaReq /\ LocationFind(EtaDriver, id, pos)

NextEta ==
    \/ EtaUpdateLocation
    \/ LocationUpdate(EtaDriver)
    \/ LocationEmit(EtaDriver)

SpecEta == InitEta /\ [][NextEta]_vars

----------------------------------------------------------------------------
(* SpecDensify: one call of generateHighResolutionRoute on a route along a
   meridian *)

\* the longest route
MaxRoute == 3

Latitudes == {0, Tiny, 10 * Metre, 20 * Metre, 30 * Metre}
Routes ==
    UNION { [1..n -> {[lat |-> x, lng |-> 0] : x \in Latitudes}] : n \in 1..MaxRoute }
\* 18 and 36 km/h, every 1 and every 3 seconds: 5, 10, 15 and 30 m per update
Speeds == {18, 36}
Intervals == {1000, 3000}

InitDensify ==
    /\ InitRequests
    /\ InitOthers
    /\ InitHub
    /\ InitCollections
    /\ trackings = << >>
    /\ now = 1

Densify ==
    /\ dense.phase = "idle"
    /\ \E r \in Routes, s \in Speeds, ms \in Intervals : DensifyCall(r, s, ms)

NextDensify ==
    \/ Densify
    \/ DensifyPoint
    \/ DensifyReturn

SpecDensify == InitDensify /\ [][NextDensify]_vars

----------------------------------------------------------------------------
(* SpecCodec: one call of decodePolyline, on a string of the alphabet or on
   the result of encodePolyline *)

\* the longest string, and the longest sequence of points encoded
MaxLen == 4
MaxPoints == 2

\* '!' (below 63), '?' (chunk 0, last), '_' (chunk 0, continued),
\* '~' (chunk 31, continued)
Alphabet == {33, 63, 95, 126}
Strings == UNION { [1..n -> Alphabet] : n \in 0..MaxLen }

\* coordinates in units of 1e-5 degree, up to the ends of the range in which
\* twice the number fits 32 bits, and 2^30, which is beyond it
ScaledLats == {0, 1, -1, -17, 2^30 - 1, -(2^30)}
ScaledLngs == {0, 16, -16, 2^30}
PointSeqs ==
    UNION { [1..n -> {[lat |-> a, lng |-> b] : a \in ScaledLats, b \in ScaledLngs}] :
              n \in 0..MaxPoints }

InitCodec ==
    /\ InitRequests
    /\ InitOthers
    /\ InitHub
    /\ InitCollections
    /\ trackings = << >>
    /\ now = 1

DecodeString ==
    /\ codec.phase = "idle"
    /\ \E s \in Strings : DecodeCall(s, "caller", << >>)

DecodeEncoded ==
    /\ codec.phase = "idle"
    /\ \E c \in PointSeqs : DecodeCall(encodePolyline(c), "encodePolyline", c)

NextCodec ==
    \/ DecodeString
    \/ DecodeEncoded
    \/ DecodeWhile
    \/ DecodeChunk

SpecCodec == InitCodec /\ [][NextCodec]_vars

----------------------------------------------------------------------------
(* Claims checked under Spec *)

\* slot p takes the step of the handler it is parked in
Steps(p) == pc'[p] # pc[p]

\* C1: in every reachable state at most one TrackingRecord has a given
\* deliveryId as its orderId, and exactly one once a startTracking on that
\* deliveryId has saved.
C1_OneRecordPerDelivery ==
    /\ \A id \in DeliveryIds : Cardinality(Matching(trackings, id)) <= 1
    /\ \A p \in Procs :
         pc[p] = "start_emit" => Cardinality(Matching(trackings, req[p].orderId)) = 1

\* C8: updateLocation and updateStatus for a deliveryId that has no
\* TrackingRecord answer 404 at once, and that step creates no record,
\* changes no TrackingRecord, subscription or delivery, and publishes nothing.
C8_NotFoundChangesNothing ==
    [][ \A p \in Procs, id \in DeliveryIds :
          ( /\ Matching(trackings, id) = {}
            /\ \/ \E pos \in Positions : LocationFind(p, id, pos)
               \/ \E st \in StatusInputs : StatusFind(p, id, st) )
          => /\ resp'[p].code = 404
             /\ pc'[p] = "idle"
             /\ UNCHANGED << storeVars, hubVars >> ]_vars

\* C8 witness: a request was answered 404 while the collection holds no
\* record at all
C8_Witness ==
    \E p \in Procs : resp[p].code = 404 /\ trackings = << >>

\* C9 (as claimed): the save step of an updateStatus whose status is not one
\* of the six defined values answers an error and leaves the TrackingRecords,
\* the subscriptions and the published events unchanged.
C9_InvalidStatusRejected ==
    [][ \A p \in Procs :
          ( pc[p] = "status_save" /\ Steps(p)
            /\ req[p].status \notin TrackingStatuses )
          => /\ resp'[p].code = 500
             /\ pc'[p] = "idle"
             /\ UNCHANGED << storeVars, hubVars >> ]_vars

\* C10 (as claimed): within one updateStatus the subscription is written
\* before the TrackingRecord, so the request's writes are never the tracking
\* write followed by the subscription write.
C10_SyncBeforePersist ==
    \A p \in Procs :
        req[p].op = "status" => writes[p] # << "tracking", "subscription" >>

\* C10 (amended): within one updateStatus the TrackingRecord is written
\* before the subscription: whenever the request has written the
\* subscription, its writes are the tracking write followed by that one.
C10_PersistBeforeSync ==
    \A p \in Procs :
        (req[p].op = "status" /\ "subscription" \in Range(writes[p]))
        => writes[p] = << "tracking", "subscription" >>

\* C10 witness: an updateStatus has written both, and is about to emit
C10_Witness ==
    \E p \in Procs :
        /\ pc[p] = "status_emit"
        /\ writes[p] = << "tracking", "subscription" >>
        /\ subscriptions[req[p].orderId].deliveryStatus = statusMap(req[p].status)

\* both requests of the claim are answered, and they are the only ones
BothAnswered(p, q) ==
    /\ nReq = 2 /\ pc[p] = "idle" /\ pc[q] = "idle"
    /\ resp[p].op = "status" /\ resp[p].code = 200
    /\ resp[p].status \in TrackingStatuses
    /\ resp[q].op = "location" /\ resp[q].code = 200
    /\ resp[q].orderId = resp[p].orderId

\* the record holds the status of p's request and the position of q's
ReflectsBoth(p, q) ==
    LET doc == trackings[FindOne(trackings, resp[p].orderId)]
    IN  /\ doc.status = resp[p].status
        /\ doc.currentLocation = resp[q].pos
        /\ \E e \in Range(doc.history) :
              /\ e.latitude = resp[q].pos.latitude
              /\ e.longitude = resp[q].pos.longitude

\* C4: a concurrent updateStatus(id, s) and updateLocation(id, pos) on one
\* existing record both take effect. The save of the status handler changes
\* only status and lastUpdated of its document, the update of the location
\* handler leaves status alone and puts pos into currentLocation and history,
\* and once the two requests (the only ones) are answered the record holds
\* status s, currentLocation pos and pos in its history.
C4_BothWritesKept ==
    /\ [][ \A p \in Procs :
             (pc[p] = "status_save" /\ Steps(p))
             => trackings' =
                  [trackings EXCEPT ![req[p].docId] =
                      [@ EXCEPT !.status = trackings'[req[p].docId].status,
                                !.lastUpdated = trackings'[req[p].docId].lastUpdated]] ]_vars
    /\ [][ \A p \in Procs :
             (pc[p] = "location_update" /\ Steps(p))
             => /\ trackings'[req'[p].docId].status = trackings[req'[p].docId].status
                /\ trackings'[req'[p].docId].currentLocation = req[p].pos
                /\ \E e \in Range(trackings'[req'[p].docId].history) :
                      /\ e.latitude = req[p].pos.latitude
                      /\ e.longitude = req[p].pos.longitude ]_vars
    /\ [](\A p, q \in Procs : BothAnswered(p, q) => ReflectsBoth(p, q))

\* C4 witness: an updateStatus has saved from a copy loaded before a
\* location update landed (the copy's history is stale), and the record
\* holds the new status and the location update's position
C4_Witness ==
    \E p, q \in Procs :
        /\ pc[p] = "status_emit"
        /\ resp[q].op = "location" /\ resp[q].code = 200
        /\ resp[q].orderId = req[p].orderId
        /\ req[p].doc.history # trackings[req[p].docId].history
        /\ trackings[req[p].docId].status = req[p].status
        /\ trackings[req[p].docId].currentLocation = resp[q].pos

----------------------------------------------------------------------------
(* Claims checked under SpecBurst *)

\* the record all requests of SpecBurst address
BurstDoc == trackings[1]

\* length of the history when the burst began: the clock started two ticks
\* after it and every accepted request reads the clock once
BurstStartLen == now - nReq - 2

Timestamps(history) == {history[i].timestamp : i \in 1..Len(history)}

\* C3: each of N concurrent updateLocation calls on one record appends
\* exactly one history entry: the entries' timestamps stay pairwise distinct,
\* once all N calls are answered the history holds min(start + N, 100)
\* entries (min(N, 100) from an empty history), and lastUpdated (written
\* with currentLocation and route.eta) changes in exactly the steps in which
\* the history changes, which append the call's entry and trim.
C3_OneEntryPerCall ==
    /\ [](Cardinality(Timestamps(BurstDoc.history)) = Len(BurstDoc.history))
    /\ []((\A p \in Procs : pc[p] = "idle")
            => Len(BurstDoc.history) = Min(BurstStartLen + nReq, HistoryLimit))
    /\ [][ (BurstDoc'.lastUpdated # BurstDoc.lastUpdated)
              <=> (BurstDoc'.history # BurstDoc.history) ]_vars
    /\ [][ \A p \in Procs :
             (pc[p] = "location_update" /\ Steps(p))
             => /\ BurstDoc'.currentLocation = req[p].pos
                /\ BurstDoc'.route.eta = req[p].newEta
                /\ BurstDoc'.lastUpdated = req[p].t
                /\ BurstDoc'.history =
                     LastN(BurstDoc.history
                             \o << [latitude |-> req[p].pos.latitude,
                                    longitude |-> req[p].pos.longitude,
                                    timestamp |-> req[p].t] >>,
                           HistoryLimit) ]_vars

\* C3 witness: three calls were in flight together and all are answered,
\* the last accepted one having written first; the history started empty
C3_Witness ==
    /\ \A p \in Procs : pc[p] = "idle" /\ resp[p].code = 200
    /\ nReq = 3
    /\ BurstStartLen = 0
    /\ Len(BurstDoc.history) = 3
    /\ BurstDoc.history[1].timestamp > BurstDoc.history[3].timestamp

----------------------------------------------------------------------------
(* Claims checked under SpecHistory *)

\* the entry the driver's n-th request (n = 1, 2, ...) appends: the clock
\* starts at 2 and the request reads it once
DriverEntry(n) ==
    [latitude |-> RoutePoint(n - 1).latitude,
     longitude |-> RoutePoint(n - 1).longitude,
     timestamp |-> n + 1]

\* C2: after n successful updateLocation calls on a record whose history was
\* empty, the history is the last min(n, 100) appended entries in the order
\* they were appended, and it never holds more than 100 entries.
C2_HistoryBound ==
    /\ Len(trackings[1].history) <= HistoryLimit
    /\ pc[Driver] = "idle"
         => trackings[1].history =
              [i \in 1..Min(nReq, HistoryLimit) |->
                  DriverEntry(nReq - Min(nReq, HistoryLimit) + i)]

\* C2 witness: more than 100 calls are answered and the oldest entries are gone
C2_Witness ==
    /\ pc[Driver] = "idle"
    /\ nReq > HistoryLimit
    /\ Len(trackings[1].history) = HistoryLimit
    /\ trackings[1].history[1] = DriverEntry(nReq - HistoryLimit + 1)

----------------------------------------------------------------------------
(* Claims checked under SpecHub *)

\* socket k is currently subscribed to deliveryId d: it is connected and has
\* sent subscribe for d since it last unsubscribed from d or connected
Subscribed(k, d) == k \in connected /\ subCount[k][d] >= 1

\* this step publishes an event to the topic of deliveryId d
Publishes(d) == nPub' = nPub + 1 /\ lastPub'.room = Room(d)

\* socket k is sent, in this step, exactly the event published in it
Receives(k) ==
    /\ Len(inbox'[k]) = Len(inbox[k]) + 1
    /\ SubSeq(inbox'[k], 1, Len(inbox[k])) = inbox[k]
    /\ inbox'[k][Len(inbox'[k])].seq = nPub'
    /\ inbox'[k][Len(inbox'[k])].kind = lastPub'.kind
    /\ Room(inbox'[k][Len(inbox'[k])].orderId) = lastPub'.room

\* C5: an event published for deliveryId d (by a REST handler, whose request
\* is for d, or by the socket relay) is sent to every socket currently
\* subscribed to d and to no other socket.
C5_BroadcastIsolation ==
    [][ /\ \A d \in DeliveryIds, k \in Sockets :
             Publishes(d) =>
                IF Subscribed(k, d) THEN Receives(k) ELSE inbox'[k] = inbox[k]
        /\ \A p \in Procs :
             (Steps(p) /\ pc[p] \in {"start_emit", "location_emit", "status_emit"})
             => Publishes(req[p].orderId) ]_vars

\* C5 witness: the two sockets are subscribed to different deliveries, an
\* event was just published for one of them, and only its subscriber has it
C5_Witness ==
    \E k, l \in Sockets, d, e \in HubIds :
        /\ k # l /\ d # e
        /\ Subscribed(k, d) /\ ~Subscribed(k, e)
        /\ Subscribed(l, e) /\ ~Subscribed(l, d)
        /\ nPub = 1 /\ lastPub.room = Room(d)
        /\ Len(inbox[k]) = 1 /\ inbox[k][1].orderId = d
        /\ inbox[l] = << >>

\* C6: a socket that sent subscribe for d once or several times is sent each
\* event published for d exactly once, and a single unsubscribe takes it out
\* of d's topic.
C6_SubscribeIdempotent ==
    [][ \A k \in Sockets, d \in DeliveryIds :
          /\ (Publishes(d) /\ Subscribed(k, d)) => Receives(k)
          /\ (subCount[k][d] >= 1 /\ subCount'[k][d] = 0)
                => Room(d) \notin rooms'[k] ]_vars

\* C6 witness: a socket subscribed twice to d holds, once, the event just
\* published for d
C6_Witness ==
    \E k \in Sockets, d \in HubIds :
        /\ subCount[k][d] >= 2
        /\ nPub = 1 /\ lastPub.room = Room(d)
        /\ Len(inbox[k]) = 1 /\ inbox[k][1].seq = 1

\* C7: a socket is sent an event only in the step that publishes it and only
\* while subscribed to the event's deliveryId (so not after unsubscribe or
\* disconnect, and never an event published earlier), and a publish to a
\* topic without subscribers changes no inbox and no room.
C7_NoDeliveryAfterLeave ==
    [][ /\ \A k \in Sockets :
             inbox'[k] # inbox[k]
             => /\ Receives(k)
                /\ \E d \in DeliveryIds : lastPub'.room = Room(d) /\ Subscribed(k, d)
        /\ \A d \in DeliveryIds :
             (Publishes(d) /\ \A k \in Sockets : ~Subscribed(k, d))
             => UNCHANGED << inbox, rooms >> ]_vars

\* C7 witness: a socket that received an event of d and then left d (by
\* unsubscribe or disconnect) does not hold the event published for d since
C7_Witness ==
    \E k \in Sockets, d \in HubIds :
        /\ ~Subscribed(k, d)
        /\ Len(inbox[k]) = 1 /\ inbox[k][1].orderId = d /\ inbox[k][1].seq = 1
        /\ nPub = 2 /\ lastPub.room = Room(d)

----------------------------------------------------------------------------
(* Claims about the subscription sync of updateStatus *)

\* the table of the sync, as the specification states it
SyncTable ==
    [ assigned |-> "packed", picking_up |-> "packed", en_route |-> "out_for_delivery",
      nearby |-> "nearby", arrived |-> "nearby", delivered |-> "delivered" ]

\* the days to the next delivery, as the specification states them
ClaimDays(plan) ==
    IF plan = "daily" THEN 1
    ELSE IF plan = "alternate" THEN 2
    ELSE IF plan = "weekly" THEN 7
    ELSE 1

\* slot p takes the step in which its sync saves the subscription
SyncSaves(p) == pc[p] = "status_subsave" /\ writes'[p] # writes[p]

\* C11: a sync that changes the stored subscription leaves its deliveryStatus
\* at a value of the table (never pending), and at table[s] when s is one of
\* the six tracking statuses.
C11_SyncWritesTable ==
    [][ \A p \in Procs :
          (SyncSaves(p) /\ subscriptions' # subscriptions)
          => LET d == subscriptions'[req[p].orderId].deliveryStatus
             IN  /\ d \in {SyncTable[s] : s \in TrackingStatuses}
                 /\ req[p].status \in TrackingStatuses => d = SyncTable[req[p].status] ]_vars

\* C13: when updateStatus(id, en_route) on a record of type subscription that
\* names a subscription has run its sync without an error and is about to
\* publish, that subscription's deliveryStatus has been written by it.
C13_ReferencedSubscriptionSynced ==
    \A p \in Procs :
        ( /\ pc[p] = "status_emit"
          /\ req[p].status = "en_route"
          /\ ~req[p].syncErr
          /\ req[p].doc.deliveryType = "subscription"
          /\ req[p].doc.subscriptionId \in SubscriptionIds )
        => "subscription" \in Range(writes[p])

\* C14: no step of an updateStatus on a record of type order changes a
\* subscription.
C14_OrderKindNeverSyncs ==
    [][ \A p \in Procs :
          (req[p].op = "status" /\ req[p].doc.deliveryType = "order" /\ Steps(p))
          => subscriptions' = subscriptions ]_vars

\* C12: the sync of a delivered status assigns lastDeliveredDate = now,
\* deliveriesInCycle = one more than the value it read and nextDelivery = now
\* plus 1 (daily), 2 (alternate), 7 (weekly) or 1 (any other plan) days, and
\* its save stores these three values; the sync of any other status assigns
\* none of the three fields and its save leaves them as they are stored.
C12_DeliveredBookkeeping ==
    /\ [][ \A p \in Procs :
             (pc[p] = "status_subfind" /\ pc'[p] = "status_subsave")
             => LET loaded == subscriptions[req[p].orderId]
                    sub == req'[p].sub
                IN  IF req[p].status = "delivered"
                    THEN /\ sub.lastDeliveredDate = now
                         /\ sub.deliveriesInCycle = loaded.deliveriesInCycle + 1
                         /\ sub.nextDelivery = now + ClaimDays(loaded.plan) * DaySeconds
                    ELSE /\ sub.lastDeliveredDate = loaded.lastDeliveredDate
                         /\ sub.deliveriesInCycle = loaded.deliveriesInCycle
                         /\ sub.nextDelivery = loaded.nextDelivery ]_vars
    /\ [][ \A p \in Procs :
             SyncSaves(p)
             => LET before == subscriptions[req[p].orderId]
                    after == subscriptions'[req[p].orderId]
                    kept == IF req[p].status = "delivered" THEN req[p].sub ELSE before
                IN  /\ after.lastDeliveredDate = kept.lastDeliveredDate
                    /\ after.deliveriesInCycle = kept.deliveriesInCycle
                    /\ after.nextDelivery = kept.nextDelivery ]_vars

\* C12 witness: a delivered status has been synced to a weekly subscription:
\* one delivery counted, the next one seven days after the last
C12_Witness ==
    \E p \in Procs :
        /\ pc[p] = "status_emit" /\ req[p].status = "delivered"
        /\ "subscription" \in Range(writes[p])
        /\ subscriptions[req[p].orderId].plan = "weekly"
        /\ subscriptions[req[p].orderId].deliveriesInCycle = 1
        /\ subscriptions[req[p].orderId].lastDeliveredDate # NoDate
        /\ subscriptions[req[p].orderId].nextDelivery =
              subscriptions[req[p].orderId].lastDeliveredDate + 7 * DaySeconds

\* C15: an error thrown by the subscription lookup or save, and a lookup that
\* finds nothing, leave the handler on its way to the emit with the tracking
\* record as saved and (on an error) the subscription untouched; the handler
\* whose sync wrote no subscription then publishes statusUpdate to its
\* delivery's room and answers 200, its tracking save done.
C15_SyncFailureNonFatal ==
    /\ [][ \A p \in Procs :
             (pc[p] \in {"status_subfind", "status_subsave"} /\ Steps(p))
             => /\ pc'[p] \in {"status_subsave", "status_emit"}
                /\ trackings' = trackings
                /\ req'[p].syncErr => (subscriptions' = subscriptions
                                        /\ pc'[p] = "status_emit") ]_vars
    /\ [][ \A p \in Procs :
             (pc[p] = "status_emit" /\ Steps(p) /\ "subscription" \notin Range(writes[p]))
             => /\ resp'[p].code = 200
                /\ resp'[p].status = req[p].status
                /\ writes[p] = << "tracking" >>
                /\ nPub' = nPub + 1
                /\ lastPub' = [room |-> Room(req[p].orderId),
                               kind |-> "statusUpdate", by |-> p] ]_vars

\* C15 witness: a handler whose sync threw is about to publish, its tracking
\* save done and no subscription written
C15_Witness ==
    \E p \in Procs :
        /\ pc[p] = "status_emit" /\ req[p].syncErr
        /\ writes[p] = << "tracking" >>
        /\ trackings[req[p].docId].status = req[p].status

----------------------------------------------------------------------------
(* Claims about the read of a subscription, checked under SpecRead *)

\* the reader accepts a read of subscription id
ReadsNow(id) ==
    /\ pc[Reader] = "idle" /\ nReq' = nReq + 1
    /\ IF pc'[Reader] = "idle" THEN resp'[Reader].orderId = id
                                ELSE req'[Reader].orderId = id

\* the effective status the read that is accepted in this step will answer
AnswerOfRead ==
    IF pc'[Reader] = "idle" THEN resp'[Reader].status ELSE req'[Reader].status

\* what a read of the stored subscription sub at instant t answers
ReadAnswer(sub, t) ==
    IF Promotes(sub, t) THEN "packed" ELSE EffectiveStatus(sub, t)

\* C16: a read of a subscription stored as delivered, with both dates set,
\* answers delivered on a day from the last delivery's up to the day before
\* the next delivery's, and pending on the next delivery's day and after it.
C16_DeliveredUntilNextDelivery ==
    [][ \A id \in SubscriptionIds :
          ( /\ ReadsNow(id)
            /\ subscriptions[id].deliveryStatus = "delivered"
            /\ subscriptions[id].lastDeliveredDate # NoDate
            /\ subscriptions[id].nextDelivery # NoDate )
          => /\ ( Day(subscriptions[id].lastDeliveredDate) <= Day(now)
                  /\ Day(now) < Day(subscriptions[id].nextDelivery) )
                => AnswerOfRead = "delivered"
             /\ Day(now) >= Day(subscriptions[id].nextDelivery)
                => AnswerOfRead = "pending" ]_vars

\* today is the day of nextDelivery and the stored deliveryStatus is pending
PromotesStoredPending(sub, t) ==
    /\ sub.nextDelivery # NoDate
    /\ Day(t) = Day(sub.nextDelivery)
    /\ sub.deliveryStatus = "pending"

\* C17: a read changes the stored subscription only when today is the day of
\* nextDelivery and the stored deliveryStatus is pending, and then only
\* deliveryStatus, to packed; and a second read at the instant a read is
\* answered would answer the same effective status.
C17_ReadPersistsOnlyPromotion ==
    /\ [][ \A id \in SubscriptionIds :
             subscriptions'[id] # subscriptions[id]
             => /\ PromotesStoredPending(subscriptions[id], now)
                /\ subscriptions'[id] =
                     [subscriptions[id] EXCEPT !.deliveryStatus = "packed"] ]_vars
    /\ [][ \A id \in SubscriptionIds :
             ( /\ pc'[Reader] = "idle"
               /\ pc[Reader] = "subget_save" \/ nReq' = nReq + 1
               /\ resp'[Reader].code = 200 /\ resp'[Reader].orderId = id )
             => ReadAnswer(subscriptions'[id], now) = resp'[Reader].status ]_vars

----------------------------------------------------------------------------
(* Claims about single calls, checked under SpecSerial *)

\* the record a lookup of the delivery finds in the collection coll
RecordOf(coll, id) == coll[CHOOSE i \in Matching(coll, id) : TRUE]

\* C18: the save of startTracking leaves exactly one record of its delivery,
\* with origin, destination, route.points, route.polyline, route.distance and
\* route.duration as in the request, currentLocation at the origin's
\* coordinates, status picking_up and route.eta = the time of the request +
\* duration, whether the record existed (in any state) or not; the call is
\* then answered 200.
C18_StartOverwrites ==
    /\ [][ (pc[Serial] = "start_save" /\ Steps(Serial))
           => /\ Cardinality(Matching(trackings', req[Serial].orderId)) = 1
              /\ LET doc == RecordOf(trackings', req[Serial].orderId)
                     body == req[Serial].body
                 IN  /\ doc.origin = body.origin
                     /\ doc.destination = body.destination
                     /\ doc.route.points = body.routePoints
                     /\ doc.route.polyline = body.polyline
                     /\ doc.route.distance = body.distance
                     /\ doc.route.duration = body.duration
                     /\ doc.route.eta = req[Serial].t + body.duration
                     /\ doc.currentLocation.latitude = body.origin.latitude
                     /\ doc.currentLocation.longitude = body.origin.longitude
                     /\ doc.status = "picking_up" ]_vars
    /\ [][ (pc[Serial] = "start_emit" /\ Steps(Serial))
           => resp'[Serial].code = 200 ]_vars

\* C18 witness: a start without route points on an existing record that has
\* a history and another status has saved, and the record is at picking_up
\* with no route points and its history
C18_Witness ==
    /\ pc[Serial] = "start_emit"
    /\ req[Serial].docId # 0
    /\ req[Serial].body.routePoints = << >>
    /\ "status" \in req[Serial].paths
    /\ RecordOf(trackings, req[Serial].orderId).status = "picking_up"
    /\ RecordOf(trackings, req[Serial].orderId).route.points = << >>
    /\ RecordOf(trackings, req[Serial].orderId).history # << >>

\* the serial handler answers at once the request it accepts in this step
AnswersAtOnce == pc[Serial] = "idle" /\ pc'[Serial] = "idle" /\ nReq' = nReq + 1

\* C20: a getTracking on a delivery that has a record answers 200 at once
\* and changes nothing in the store; on a delivery without a record it goes
\* on to insert one record of that delivery with status assigned, no history
\* and no route points, and changes nothing else; so there is never more
\* than one record of a delivery, however often getTracking is repeated.
C20_GetOrCreateIdempotent ==
    /\ [][ \A id \in DeliveryIds :
             ( /\ pc[Serial] = "idle" /\ nReq' = nReq + 1
               /\ IF pc'[Serial] = "idle" THEN resp'[Serial].op = "get"
                                           ELSE req'[Serial].op = "get"
               /\ IF pc'[Serial] = "idle" THEN resp'[Serial].orderId = id
                                           ELSE req'[Serial].orderId = id )
             => /\ UNCHANGED storeVars
                /\ IF Matching(trackings, id) # {}
                   THEN AnswersAtOnce /\ resp'[Serial].code = 200
                   ELSE pc'[Serial] = "get_save" ]_vars
    /\ [][ (pc[Serial] = "get_save" /\ Steps(Serial))
           => /\ Matching(trackings, req[Serial].orderId) = {}
              /\ Len(trackings') = Len(trackings) + 1
              /\ SubSeq(trackings', 1, Len(trackings)) = trackings
              /\ trackings'[Len(trackings')].orderId = req[Serial].orderId
              /\ trackings'[Len(trackings')].status = "assigned"
              /\ trackings'[Len(trackings')].history = << >>
              /\ trackings'[Len(trackings')].route.points = << >>
              /\ UNCHANGED << subscriptions, deliveries >>
              /\ resp'[Serial].code = 200 ]_vars
    /\ [](\A id \in DeliveryIds : Cardinality(Matching(trackings, id)) <= 1)

\* C20 witness: a second getTracking of a delivery has been answered, after
\* the first one created the record and a status update changed it, and the
\* record is the only one and as the status update left it
C20_Witness ==
    /\ nReq = 3 /\ pc[Serial] = "idle"
    /\ resp[Serial].op = "get" /\ resp[Serial].code = 200
    /\ Len(trackings) = 1
    /\ trackings[1].orderId = resp[Serial].orderId
    /\ trackings[1].status = "en_route"
    /\ trackings[1].origin = Absent

----------------------------------------------------------------------------
(* Claims about the events of the REST handlers, checked under Spec *)

\* the event kind of each operation that publishes
KindOf(op) ==
    IF op = "start" THEN "trackingStarted"
    ELSE IF op = "location" THEN "driverLocation"
    ELSE IF op = "status" THEN "statusUpdate"
    ELSE Null

\* C19: an event is published only in the step in which a startTracking,
\* updateLocation or updateStatus answers 200, one event, of the kind of the
\* operation, to the room of the request's deliveryId, after the handler's
\* write of the tracking record; every such answer publishes; a request
\* answered with an error, and a getTracking, publish nothing.
C19_OneEventAfterPersist ==
    /\ [][ nPub' # nPub
           => \E p \in Procs :
                /\ Steps(p) /\ pc'[p] = "idle"
                /\ resp'[p].code = 200
                /\ KindOf(req[p].op) # Null
                /\ nPub' = nPub + 1
                /\ lastPub' = [room |-> Room(req[p].orderId),
                               kind |-> KindOf(req[p].op), by |-> p]
                /\ Len(writes[p]) >= 1 /\ writes[p][1] = "tracking" ]_vars
    /\ [][ \A p \in Procs :
             (Steps(p) /\ pc'[p] = "idle")
             => IF resp'[p].code = 200 /\ KindOf(resp'[p].op) # Null
                THEN nPub' = nPub + 1 /\ lastPub'.by = p
                ELSE nPub' = nPub ]_vars
    /\ [][ nReq' # nReq => nPub' = nPub ]_vars

\* C19 witness: one request was answered 404 and published nothing, one
\* status update was answered 200, and its event is the only one published
C19_Witness ==
    \E p, q \in Procs :
        /\ resp[q].code = 404
        /\ resp[p].code = 200 /\ resp[p].op = "status"
        /\ pc[p] = "idle" /\ pc[q] = "idle"
        /\ nPub = 1
        /\ lastPub = [room |-> Room(resp[p].orderId), kind |-> "statusUpdate", by |-> p]

----------------------------------------------------------------------------
(* Claims checked under SpecSerial and SpecSync: the status state machine *)

\* C21: delivered is a terminal status of a TrackingRecord: a step of any
\* operation (updateStatus, startTracking, updateLocation, getTracking) that
\* starts with a record whose status is delivered leaves that record's
\* status delivered.
C21_DeliveredTerminal ==
    [][\A i \in DOMAIN trackings :
          trackings[i].status = "delivered"
              => /\ i \in DOMAIN trackings'
                 /\ trackings'[i].status = "delivered"]_vars

----------------------------------------------------------------------------
(* Claims checked under SpecHub: the payload of driverLocation *)

\* the events sent to socket k in this step
SentTo(k) == SubSeq(inbox'[k], Len(inbox[k]) + 1, Len(inbox'[k]))

\* the fields the driverLocation payload is specified to carry (eta is optional)
DriverLocationFields ==
    {"deliveryId", "orderId", "deliveryType", "latitude", "longitude",
     "heading", "speed", "status", "timestamp"}

\* C22: every driverLocation event sent to a subscriber, whether published by
\* the REST location handler or by the socket relay, carries all fields of
\* the payload, with deliveryId equal to orderId and with the deliveryType
\* and the status that the delivery's TrackingRecord holds when the event is
\* published.
C22_DriverLocationPayload ==
    [][ \A k \in Sockets : \A n \in DOMAIN SentTo(k) :
          LET e == SentTo(k)[n]
              i == FindOne(trackings', e.orderId)
          IN  e.kind = "driverLocation"
              => /\ DriverLocationFields \subseteq DOMAIN e
                 /\ e.deliveryId = e.orderId
                 /\ i # 0
                 /\ e.deliveryType = trackings'[i].deliveryType
                 /\ e.status = trackings'[i].status ]_vars

----------------------------------------------------------------------------
(* Claims checked under SpecEta *)

\* the remaining duration of the claim, in whole seconds: the distance from
\* the position to the destination, / 1000 / 30 * 3600
ClaimRemaining(pos, destination) ==
    (calculateDistance(pos.latitude, pos.longitude,
                       destination.latitude, destination.longitude) * 3600)
        \div (1000 * 30)

\* C23: the ETA that a location update writes is the time of the request plus
\* the remaining duration from the reported position to the record's
\* destination at 30 km/h, whatever heading and speed are reported; and when
\* the reported position is strictly nearer to the destination than the
\* position of the previous update, the remaining duration written (route.eta
\* minus lastUpdated) is not larger than the one the previous update wrote.
C23_EtaFromDistance ==
    [][ \A p \in Procs :
          (pc[p] = "location_update" /\ Steps(p))
          => LET old == trackings[req'[p].docId]
                 new == trackings'[req'[p].docId]
             IN  /\ new.route.eta
                      = req[p].t + ClaimRemaining(req[p].pos, old.destination)
                 /\ new.lastUpdated = req[p].t
                 /\ ( /\ old.history # << >>
                      /\ ClaimRemaining(new.currentLocation, old.destination)
                           < ClaimRemaining(old.currentLocation, old.destination) )
                    => new.route.eta - new.lastUpdated
                         <= old.route.eta - old.lastUpdated ]_vars

----------------------------------------------------------------------------
(* Claims checked under SpecDensify *)

\* C24: a call of the densifier on a route of at least 2 points returns a
\* sequence whose last element is the route's final point, whose first
\* element is the route's first point, and whose length is within 1 of
\* ceil(totalDistance / step) + 1.
C24_DensifyEndpoints ==
    (dense.phase = "done" /\ Len(dense.routePoints) >= 2)
    => LET route == dense.routePoints
           result == dense.result
           expected == Ceil(TotalDistance(route),
                            DistancePerUpdate(dense.speedKmh,
                                              dense.updateIntervalMs)) + 1
       IN  /\ result # << >>
           /\ result[Len(result)] = route[Len(route)]
           /\ result[1] = route[1]
           /\ Len(result) \in (expected - 1)..(expected + 1)

----------------------------------------------------------------------------
(* Claims checked under SpecCodec *)

\* the call has returned and its string came from encodePolyline
RoundTripDone == codec.phase = "done" /\ codec.encodedFrom = "encodePolyline"

\* twice the number fits a 32-bit integer
FitsDoubled(n) == -(2^30) <= n /\ n <= 2^30 - 1

\* every number that encodePolyline hands to encodeNumber fits: the first
\* point's coordinates and the differences from each point to the next
DeltasFit(coordinates) ==
    \A i \in DOMAIN coordinates :
        LET prev == IF i = 1 THEN [lat |-> 0, lng |-> 0] ELSE coordinates[i - 1]
        IN  /\ FitsDoubled(coordinates[i].lat - prev.lat)
            /\ FitsDoubled(coordinates[i].lng - prev.lng)

\* the decoded points are the encoded ones, within one unit (1e-5 degree)
SamePoints(points, coordinates) ==
    /\ Len(points) = Len(coordinates)
    /\ \A i \in DOMAIN coordinates :
         /\ points[i].lat \in (coordinates[i].lat - 1)..(coordinates[i].lat + 1)
         /\ points[i].lng \in (coordinates[i].lng - 1)..(coordinates[i].lng + 1)

\* C25 as stated: for every sequence of points whose scaled coordinates are
\* 32-bit integers (as all coordinates of the model are), decoding the
\* encoded sequence gives a sequence of the same length with the same
\* coordinates within 1e-5; the empty sequence encodes to the empty string
\* and the empty string decodes to the empty sequence.
C25_RoundTrip ==
    /\ RoundTripDone => SamePoints(codec.points, codec.coordinates)
    /\ encodePolyline(<< >>) = << >>
    /\ (codec.phase = "done" /\ codec.encoded = << >>) => codec.points = << >>

\* C25, amended: the same for every sequence of points in which the first
\* point's scaled coordinates and the differences between the scaled
\* coordinates of consecutive points lie in -2^30 .. 2^30 - 1 (every
\* sequence of valid latitudes and longitudes is one); the decoded
\* coordinates are then the encoded ones exactly.
C25_RoundTripWhereDoubledFits ==
    /\ (RoundTripDone /\ DeltasFit(codec.coordinates))
       => /\ SamePoints(codec.points, codec.coordinates)
          /\ codec.points = codec.coordinates
    /\ encodePolyline(<< >>) = << >>
    /\ (codec.phase = "done" /\ codec.encoded = << >>) => codec.points = << >>

\* C25 witness: a round trip of two points, the first at the upper end of the
\* range with a negative longitude, the second below it, has returned
C25_Witness ==
    /\ RoundTripDone
    /\ DeltasFit(codec.coordinates)
    /\ Len(codec.coordinates) = 2
    /\ codec.coordinates[1].lat = 2^30 - 1
    /\ codec.coordinates[1].lng < 0
    /\ codec.coordinates[2].lat < codec.coordinates[1].lat
    /\ Len(codec.points) = 2

\* C26: decodePolyline terminates on every string. Every pass of a do-while
\* loop advances the index by one, a pass that reads at or beyond the end of
\* the string is the last of its loop, the outer loop is left as soon as its
\* test finds the index at or beyond the end, and so the index never passes
\* the length by more than 2 (one read for a value cut short, one for a
\* missing longitude).
C26_DecodeTerminates ==
    /\ [](codec.phase \in {"while", "lat", "lng", "done"}
            => codec.index <= Len(codec.encoded) + 2)
    /\ [][ codec.phase \in {"lat", "lng"}
             => /\ codec'.index = codec.index + 1
                /\ codec.index >= Len(codec.encoded)
                     => codec'.phase # codec.phase ]_vars
    /\ [][ codec.phase = "while"
             => /\ codec'.index = codec.index
                /\ codec'.phase = IF codec.index >= Len(codec.encoded)
                                  THEN "done" ELSE "lat" ]_vars

\* C26 witness: the decoding of a malformed string has returned: it holds a
\* character below code 63, its last character has the continuation bit set,
\* and the index went 2 beyond the end
C26_Witness ==
    /\ codec.phase = "done"
    /\ codec.encodedFrom = "caller"
    /\ codec.encoded # << >>
    /\ \E i \in DOMAIN codec.encoded : codec.encoded[i] < 63
    /\ codec.encoded[Len(codec.encoded)] - 63 >= 32
    /\ codec.index = Len(codec.encoded) + 2
    /\ codec.points # << >>

----------------------------------------------------------------------------
(* Claims checked under Spec: independence of deliveries *)

\* the request whose step slot p takes: its operation and its deliveryId
StepRequest(p) ==
    IF pc[p] # "idle" THEN req[p]
    ELSE IF pc'[p] = "idle" THEN resp'[p] ELSE req'[p]

\* the four operations of the tracking router
RouterOps == {"get", "start", "location", "status"}

\* C27: a step of getTracking, startTracking, updateLocation or updateStatus
\* on deliveryId A changes no TrackingRecord of another deliveryId and adds
\* no record under another deliveryId; and a request in progress is never
\* blocked: whatever the other requests are doing, its next step can be
\* taken.
C27_DeliveriesIndependent ==
    /\ [][ \A p \in Procs :
             (Steps(p) /\ StepRequest(p).op \in RouterOps)
             => /\ Len(trackings') >= Len(trackings)
                /\ \A i \in DOMAIN trackings' :
                     IF i \in DOMAIN trackings
                     THEN trackings[i].orderId # StepRequest(p).orderId
                             => trackings'[i] = trackings[i]
                     ELSE trackings'[i].orderId = StepRequest(p).orderId ]_vars
    /\ [](\A p \in Handlers : pc[p] # "idle" => ENABLED Continue(p))

\* C27 witness: one request has written the record of its delivery while a
\* request on another delivery, whose record exists too, is in progress
C27_Witness ==
    \E p, q \in Handlers :
        /\ p # q
        /\ pc[p] # "idle" /\ pc[q] # "idle"
        /\ req[p].op \in RouterOps /\ req[q].op \in RouterOps
        /\ req[p].orderId # req[q].orderId
        /\ writes[p] # << >> /\ writes[p][1] = "tracking"
        /\ FindOne(trackings, req[p].orderId) # 0
        /\ FindOne(trackings, req[q].orderId) # 0

----------------------------------------------------------------------------
(* SpecRestart: a delivery started towards one destination is started again
   towards another while location updates of it are in progress *)

MaxRestartReq == 3

\* the destination of the first start, 249 m from the second one's origin
EarlierDestination == Pos(3, 2)

InitRestart ==
    /\ InitRequests
    /\ InitOthers
    /\ InitHub
    /\ InitCollections
    /\ trackings = << [StartedTracking(OrderA, 0)
                          EXCEPT !.destination = EarlierDestination] >>
    /\ now = 2

RestartTracking ==
    \E p \in Handlers :
        nReq < MaxRestartReq
        /\ StartFind(p, OrderA, Origin, Destination, RoutePoints, Polyline,
                     Distance, Duration)

RestartUpdateLocation ==
    \E p \in Handlers, pos \in Positions :
        nReq < MaxRestartReq /\ LocationFind(p, OrderA, pos)

NextRestart ==
    \/ RestartTracking
    \/ RestartUpdateLocation
    \/ \E p \in Handlers : StartSave(p)
    \/ \E p \in Handlers : StartEmit(p)
    \/ \E p \in Handlers : LocationUpdate(p)
    \/ \E p \in Handlers : LocationEmit(p)

SpecRestart == InitRestart /\ [][NextRestart]_vars

\* the record's last write was a location update: startTracking puts the
\* driver back on the origin with heading and speed 0
LocationWrittenLast(doc) ==
    doc.currentLocation # Location(doc.origin.latitude, doc.origin.longitude, 0, 0)

\* C28: once the concurrent startTracking and updateLocation calls on one
\* delivery have completed, the stored route.eta is the outcome of a serial
\* order of the calls: where a location update wrote last, it is the ETA from
\* the stored position to the destination stored alongside it, never an ETA
\* to the destination the record had before
C28_EtaOfStoredDestination ==
    (\A p \in Handlers : pc[p] = "idle")
    => \A i \in DOMAIN trackings :
         LocationWrittenLast(trackings[i])
         => trackings[i].route.eta =
              NewEta(trackings[i].currentLocation, trackings[i].destination,
                     trackings[i].lastUpdated)

----------------------------------------------------------------------------
(* SpecFeed: location and status updates of one order, two requests at a
   time, with one socket subscribed to the order's room *)

MaxFeedReq == 3
Watcher == "k1"
FeedStatusInputs == {"en_route", "nearby"}

InitFeed ==
    /\ InitRequests
    /\ InitOthers
    /\ rooms = [k \in Sockets |-> IF k = Watcher THEN {Room(OrderA)} ELSE {}]
    /\ connected = Sockets
    /\ inbox = [k \in Sockets |-> << >>]
    /\ subCount = [k \in Sockets |-> [d \in DeliveryIds |->
                      IF k = Watcher /\ d = OrderA THEN 1 ELSE 0]]
    /\ lastPub = [room |-> Room(Null), kind |-> Null, by |-> Null]
    /\ nPub = 0
    /\ InitCollections
    /\ trackings = << StartedTracking(OrderA, 0) >>
    /\ now = 2

FeedUpdateLocation ==
    \E p \in Handlers, pos \in Positions :
        nReq < MaxFeedReq /\ LocationFind(p, OrderA, pos)

FeedUpdateStatus ==
    \E p \in Handlers, st \in FeedStatusInputs :
        nReq < MaxFeedReq /\ StatusFind(p, OrderA, st)

NextFeed ==
    \/ FeedUpdateLocation
    \/ FeedUpdateStatus
    \/ \E p \in Handlers : LocationUpdate(p)
    \/ \E p \in Handlers : LocationEmit(p)
    \/ \E p \in Handlers : StatusSave(p)
    \/ \E p \in Handlers : StatusEmit(p)

SpecFeed == InitFeed /\ [][NextFeed]_vars

\* the events of one kind a socket was sent, in the order it was sent them
EventsOf(k, kind) == SelectSeq(inbox[k], LAMBDA e : e.kind = kind)

\* the place in the history of the entry a location update stamped t
HistoryIndex(history, t) ==
    CHOOSE n \in DOMAIN history : history[n].timestamp = t

\* C29: once the concurrent calls on one delivery have completed, a
\* subscriber was sent the driverLocation events in the order in which their
\* history entries were appended, and the last statusUpdate event it was sent
\* carries the status stored in the TrackingRecord.
C29_EventsInStoredOrder ==
    (\A p \in Handlers : pc[p] = "idle")
    => LET doc == trackings[FindOne(trackings, OrderA)]
           moved == EventsOf(Watcher, "driverLocation")
           changed == EventsOf(Watcher, "statusUpdate")
       IN  /\ \A i, j \in DOMAIN moved :
                 i < j => HistoryIndex(doc.history, moved[i].timestamp)
                            < HistoryIndex(doc.history, moved[j].timestamp)
           /\ changed # << >> => changed[Len(changed)].status = doc.status

----------------------------------------------------------------------------
(* Claims checked under SpecSync: concurrent status updates of one
   subscription *)

\* C30: when the last call of a set of concurrent updateStatus calls on a
\* subscription-kind delivery saves the subscription (no other call is in
\* progress, and the sync of this one did not fail), it leaves the
\* subscription's deliveryStatus equal to the table's value for the status
\* stored in the TrackingRecord: the calls cannot complete with the two in
\* disagreement.
C30_SubscriptionAgrees ==
    [][ \A p \in Handlers :
          ( /\ pc[p] = "status_subsave"
            /\ pc'[p] = "status_emit"
            /\ ~req'[p].syncErr
            /\ \A q \in Handlers \ {p} : pc[q] = "idle" )
          => subscriptions'[req[p].orderId].deliveryStatus
               = SyncTable[trackings'[FindOne(trackings', req[p].orderId)].status] ]_vars


\* C31: every updateStatus(id, 'delivered') whose sync saves the
\* subscription raises the stored deliveriesInCycle by exactly one, whatever
\* other calls run at the same time: k such calls raise it by k, and no
\* increment is lost to a concurrent read-modify-write.
C31_CountsEveryDelivered ==
    [][ \A p \in Handlers :
          ( /\ pc[p] = "status_subsave"
            /\ pc'[p] = "status_emit"
            /\ ~req'[p].syncErr
            /\ statusMap(req[p].status) = "delivered" )
          => subscriptions'[req[p].orderId].deliveriesInCycle
               = subscriptions[req[p].orderId].deliveriesInCycle + 1 ]_vars


----------------------------------------------------------------------------
(* Claims checked under SpecHub: the position of driverLocation *)

\* the record holds the position as its currentLocation or in its history
Recorded(doc, latitude, longitude) ==
    \/ /\ doc.currentLocation # Absent
       /\ doc.currentLocation.latitude = latitude
       /\ doc.currentLocation.longitude = longitude
    \/ \E n \in DOMAIN doc.history :
          /\ doc.history[n].latitude = latitude
          /\ doc.history[n].longitude = longitude

\* C32: every driverLocation event sent to a subscriber of a delivery reports
\* a position that the delivery's TrackingRecord holds, as currentLocation or
\* in its history, when the event is published; no such event is sent for a
\* delivery without a TrackingRecord or for a position never persisted.
C32_EventPositionRecorded ==
    [][ \A k \in Sockets : \A n \in DOMAIN SentTo(k) :
          LET e == SentTo(k)[n]
              i == FindOne(trackings', e.orderId)
          IN  e.kind = "driverLocation"
              => /\ i # 0
                 /\ Recorded(trackings'[i], e.latitude, e.longitude) ]_vars


----------------------------------------------------------------------------
(* Claims checked under Spec: what each write leaves alone *)

\* the stored record and the record after the step agree on the fields fs
SameFields(i, fs) == \A f \in fs : trackings'[i][f] = trackings[i][f]

\* C33: the save of startTracking on an existing record leaves its orderId,
\* history, deliveryType, subscriptionId and createdAt unchanged; the write of
\* updateLocation leaves status, origin, destination and the route's points,
\* polyline, distance and duration unchanged; the save of updateStatus leaves
\* currentLocation, route and history unchanged. Each holds of the stored
\* record whatever other request wrote it since the handler read it.
C33_WritesLeaveOtherFields ==
    [][ \A p \in Handlers :
          /\ (pc[p] = "start_save" /\ pc'[p] = "start_emit" /\ req[p].docId # 0)
             => SameFields(req[p].docId,
                           {"orderId", "history", "deliveryType", "subscriptionId",
                            "createdAt"})
          /\ (pc[p] = "location_update" /\ pc'[p] = "location_emit")
             => /\ SameFields(req'[p].docId,
                              {"orderId", "status", "origin", "destination",
                               "deliveryType", "subscriptionId", "createdAt"})
                /\ trackings'[req'[p].docId].route
                     = [trackings[req'[p].docId].route EXCEPT
                           !.eta = trackings'[req'[p].docId].route.eta]
          /\ (pc[p] = "status_save" /\ pc'[p] \notin {"status_save", "idle"})
             => SameFields(req[p].docId,
                           {"orderId", "currentLocation", "route", "history",
                            "origin", "destination", "deliveryType",
                            "subscriptionId", "createdAt"}) ]_vars

\* C33 witness: a startTracking has saved an existing record to which a
\* location update had appended a history entry after the start read it
C33_Witness ==
    \E p \in Handlers :
        /\ pc[p] = "start_emit"
        /\ req[p].docId # 0
        /\ trackings[req[p].docId].history # req[p].doc.history
        /\ trackings[req[p].docId].history # << >>


----------------------------------------------------------------------------
(* PATCH /api/subscriptions/:id/delivery-status of routes/subscriptions.js *)

\* validStatuses of the handler
validStatuses == {"pending", "packed", "out_for_delivery", "nearby", "delivered"}

\* the handler's switch on subscription.plan
DeliveryStatusPlanDays(plan) ==
    CASE plan = "daily"     -> 1
      [] plan = "alternate" -> 2
      [] plan = "weekly"    -> 7
      [] OTHER              -> 1

\* the assignments to the loaded subscription
DeliveryStatusAssign(sub, status, t) ==
    IF status = "delivered"
    THEN [sub EXCEPT !.deliveryStatus = status,
                     !.lastDeliveredDate = t,
                     !.deliveriesInCycle = @ + 1,
                     !.nextDelivery = t + DeliveryStatusPlanDays(sub.plan) * DaySeconds]
    ELSE [sub EXCEPT !.deliveryStatus = status]

\* the 400 for a missing or unknown status, findById, the 404, and the
\* assignments up to subscription.save()
DeliveryStatusFind(p, id, status) ==
    /\ Accept(p)
    /\ IF status = Null \/ status \notin validStatuses
       THEN /\ Respond(p, 400, [NoReq EXCEPT !.op = "delivery-status",
                                             !.orderId = id, !.status = status])
            /\ UNCHANGED now
       ELSE IF id \notin DOMAIN subscriptions
       THEN /\ Respond(p, 404, [NoReq EXCEPT !.op = "delivery-status",
                                             !.orderId = id, !.status = status])
            /\ UNCHANGED now
       ELSE /\ LET loaded == subscriptions[id]
                   sub == DeliveryStatusAssign(loaded, status, now)
               IN  ParkOnly(p, "delivery_status_save",
                            [NoReq EXCEPT !.op = "delivery-status", !.orderId = id,
                                          !.status = status, !.sub = sub, !.t = now,
                                          !.subPaths = ModifiedPaths(loaded, sub)])
            /\ now' = now + 1
    /\ UNCHANGED << storeVars, hubVars >>

\* subscription.save(); res.json(subscription)
DeliveryStatusSave(p) ==
    /\ pc[p] = "delivery_status_save"
    /\ subscriptions' = [subscriptions EXCEPT ![req[p].orderId] =
                            SaveModified(@, req[p].sub, req[p].subPaths)]
    /\ Respond(p, 200, req[p])
    /\ UNCHANGED << trackings, deliveries, hubVars, nReq, now >>

----------------------------------------------------------------------------
(* SpecPatch: status updates of a subscription's delivery through the
   tracking router and through the subscriptions router, one request after
   the other; the subscription has any plan *)

MaxPatchReq == 2

InitPatch ==
    /\ InitRequests
    /\ InitOthers
    /\ InitHub
    /\ \E plan \in Plans :
         subscriptions = [s \in SubscriptionIds |-> NewSubscription(plan, 1)]
    /\ deliveries = [d \in SubscriptionDeliveryIds |-> NewDelivery(SubS, Destination)]
    /\ trackings = << StartedTracking(SubS, 0) >>
    /\ now = 3

PatchDeliveryStatus ==
    \E id \in {SubS, OrderA}, st \in validStatuses \cup {"bogus", Null} :
        nReq < MaxPatchReq /\ DeliveryStatusFind(Serial, id, st)

PatchUpdateStatus ==
    \E st \in TrackingStatuses :
        nReq < MaxPatchReq /\ StatusFind(Serial, SubS, st)

NextPatch ==
    \/ PatchDeliveryStatus
    \/ PatchUpdateStatus
    \/ DeliveryStatusSave(Serial)
    \/ StatusSave(Serial)
    \/ StatusSubFind(Serial)
    \/ StatusSubSave(Serial)
    \/ StatusEmit(Serial)

SpecPatch == InitPatch /\ [][NextPatch]_vars

\* C34: from the same stored subscription and at the same instant, the sync of
\* updateStatus for a tracking status s and PATCH delivery-status with
\* table[s] assign the same subscription (deliveryStatus, lastDeliveredDate,
\* deliveriesInCycle and nextDelivery), and the save of each stores it.
C34_SyncEqualsPatch ==
    [][ LET p == Serial
            id == IF pc[p] = "idle" THEN req'[p].orderId ELSE req[p].orderId
        IN  /\ (pc[p] = "status_subfind" /\ pc'[p] = "status_subsave")
               => req'[p].sub = DeliveryStatusAssign(subscriptions[id],
                                                     SyncTable[req[p].status], now)
            /\ (pc[p] = "idle" /\ pc'[p] = "delivery_status_save")
               => \A s \in TrackingStatuses :
                     SyncTable[s] = req'[p].status
                     => req'[p].sub = SyncAssign(subscriptions[id], s, now)
            /\ (pc[p] = "status_subsave" /\ pc'[p] = "status_emit"
                  /\ ~req'[p].syncErr)
               => subscriptions'[id] = req[p].sub
            /\ (pc[p] = "delivery_status_save" /\ pc'[p] = "idle")
               => subscriptions'[id] = req[p].sub ]_vars

\* C34 witness: PATCH delivery-status delivered has loaded a weekly
\* subscription that the sync of a delivered tracking status had written
C34_Witness ==
    /\ pc[Serial] = "delivery_status_save"
    /\ req[Serial].status = "delivered"
    /\ subscriptions[SubS].plan = "weekly"
    /\ subscriptions[SubS].deliveriesInCycle = 1
    /\ resp[Serial].op = "status"


----------------------------------------------------------------------------
(* SpecAddress: creating, deleting and making default the addresses of two
   users, two requests at a time, starting with no address *)

MaxAddressReq == 4
Users == {"u1", "u2"}

InitAddress ==
    /\ InitRequests
    /\ InitOthers
    /\ InitHub
    /\ InitCollections
    /\ trackings = << >>
    /\ now = 1

CreateAddress ==
    \E p \in AddressProcs, u \in Users :
        addr.nReq < MaxAddressReq /\ AddressCount(p, u)

DeleteAddress ==
    \E p \in AddressProcs, id \in 1..MaxAddressReq, u \in Users :
        addr.nReq < MaxAddressReq /\ AddressDelete(p, id, u)

SetDefaultAddress ==
    \E p \in AddressProcs, id \in 1..MaxAddressReq, u \in Users :
        addr.nReq < MaxAddressReq /\ AddressDefaultFind(p, id, u)

NextAddress ==
    \/ CreateAddress
    \/ DeleteAddress
    \/ SetDefaultAddress
    \/ \E p \in AddressProcs : AddressCreateSave(p)
    \/ \E p \in AddressProcs : AddressDeleteFind(p)
    \/ \E p \in AddressProcs : AddressDeleteSave(p)
    \/ \E p \in AddressProcs : AddressDefaultClear(p)
    \/ \E p \in AddressProcs : AddressDefaultSave(p)

SpecAddress == InitAddress /\ [][NextAddress]_vars

\* the default addresses of a user
Defaults(userId) ==
    {i \in DOMAIN OfUser(addr.docs, userId) : OfUser(addr.docs, userId)[i].isDefault}

\* C35: whenever no address operation is in progress, every user with at
\* least one address has exactly one address with isDefault = true, after any
\* interleaving of create, set-default and delete calls.
C35_OneDefaultAddress ==
    (\A p \in AddressProcs : addr.pc[p] = "idle")
    => \A u \in Users :
         OfUser(addr.docs, u) # << >> => Cardinality(Defaults(u)) = 1


----------------------------------------------------------------------------
(* The cancellation and revival of a subscription by OTP, and PUT /:id, of
   routes/subscriptions.js *)

\* the life of an OTP: 5 * 60 * 1000 ms
OtpSeconds == 300

\* !s.otp || !s.expires || s.otp !== otp || s.expires < new Date()
OtpRejected(stored, expires, otp, t) ==
    stored = Null \/ expires = NoDate \/ stored # otp \/ expires < t

\* a handler of the OTP flow up to s.save(): sub is the loaded subscription
\* after the handler's assignments
OtpPark(p, op, id, userId, otp, loaded, sub) ==
    ParkOnly(p, "otp_save",
             [NoReq EXCEPT !.op = op, !.orderId = id, !.sub = sub,
                           !.subPaths = ModifiedPaths(loaded, sub),
                           !.body = [userId |-> userId, otp |-> otp]])

\* the answer of a handler of the OTP flow that saves nothing
OtpRespond(p, code, op, id) ==
    Respond(p, code, [NoReq EXCEPT !.op = op, !.orderId = id])

\* the subscription findOne({ _id: id, userId }) finds
OwnedBy(id, userId) ==
    id \in DOMAIN subscriptions /\ subscriptions[id].userId = userId

\* POST /:id/cancel-request: findOne, the 404, and a new OTP (otp is the
\* value Math.random() yields)
CancelRequest(p, id, userId, otp) ==
    /\ Accept(p)
    /\ IF ~OwnedBy(id, userId)
       THEN OtpRespond(p, 404, "cancel-request", id)
       ELSE OtpPark(p, "cancel-request", id, userId, otp, subscriptions[id],
                    [subscriptions[id] EXCEPT !.cancelOtp = otp,
                                              !.cancelOtpExpires = now + OtpSeconds])
    /\ UNCHANGED << storeVars, hubVars, now >>

\* POST /:id/cancel-verify: the 400 without otp, findOne, the 404, the test
\* of the OTP, and status cancelled with the OTP cleared
CancelVerify(p, id, userId, otp) ==
    /\ Accept(p)
    /\ IF otp = Null
       THEN OtpRespond(p, 400, "cancel-verify", id)
       ELSE IF ~OwnedBy(id, userId)
       THEN OtpRespond(p, 404, "cancel-verify", id)
       ELSE IF OtpRejected(subscriptions[id].cancelOtp,
                           subscriptions[id].cancelOtpExpires, otp, now)
       THEN OtpRespond(p, 400, "cancel-verify", id)
       ELSE OtpPark(p, "cancel-verify", id, userId, otp, subscriptions[id],
                    [subscriptions[id] EXCEPT !.status = "cancelled",
                                              !.cancelOtp = Null,
                                              !.cancelOtpExpires = NoDate])
    /\ UNCHANGED << storeVars, hubVars, now >>

\* POST /:id/revive-request: findOne, the 404, the 400 unless cancelled, and
\* a new OTP
ReviveRequest(p, id, userId, otp) ==
    /\ Accept(p)
    /\ IF ~OwnedBy(id, userId)
       THEN OtpRespond(p, 404, "revive-request", id)
       ELSE IF subscriptions[id].status # "cancelled"
       THEN OtpRespond(p, 400, "revive-request", id)
       ELSE OtpPark(p, "revive-request", id, userId, otp, subscriptions[id],
                    [subscriptions[id] EXCEPT !.reviveOtp = otp,
                                              !.reviveOtpExpires = now + OtpSeconds])
    /\ UNCHANGED << storeVars, hubVars, now >>

\* POST /:id/revive-verify: as cancel-verify, for a cancelled subscription
ReviveVerify(p, id, userId, otp) ==
    /\ Accept(p)
    /\ IF otp = Null
       THEN OtpRespond(p, 400, "revive-verify", id)
       ELSE IF ~OwnedBy(id, userId)
       THEN OtpRespond(p, 404, "revive-verify", id)
       ELSE IF subscriptions[id].status # "cancelled"
       THEN OtpRespond(p, 400, "revive-verify", id)
       ELSE IF OtpRejected(subscriptions[id].reviveOtp,
                           subscriptions[id].reviveOtpExpires, otp, now)
       THEN OtpRespond(p, 400, "revive-verify", id)
       ELSE OtpPark(p, "revive-verify", id, userId, otp, subscriptions[id],
                    [subscriptions[id] EXCEPT !.status = "active",
                                              !.reviveOtp = Null,
                                              !.reviveOtpExpires = NoDate])
    /\ UNCHANGED << storeVars, hubVars, now >>

\* await s.save() of the four handlers, and the answer
OtpSave(p) ==
    /\ pc[p] = "otp_save"
    /\ subscriptions' = [subscriptions EXCEPT ![req[p].orderId] =
                            SaveModified(@, req[p].sub, req[p].subPaths)]
    /\ Respond(p, 200, req[p])
    /\ UNCHANGED << trackings, deliveries, hubVars, nReq, now >>

\* PUT /:id with a status in the body:
\* Subscription.findOneAndUpdate({ _id, userId }, updates, { new: true })
PutSubscription(p, id, userId, status) ==
    /\ Accept(p)
    /\ IF ~OwnedBy(id, userId)
       THEN /\ OtpRespond(p, 404, "put", id)
            /\ UNCHANGED subscriptions
       ELSE /\ subscriptions' = [subscriptions EXCEPT ![id].status = status]
            /\ OtpRespond(p, 200, "put", id)
    /\ UNCHANGED << trackings, deliveries, hubVars, now >>

----------------------------------------------------------------------------
(* SpecOtp: the owner of a subscription and another user cancel, revive and
   update it, two requests at a time, while OTPs expire *)

MaxOtpReq == 3
Otps == {"111111", "222222"}

InitOtp ==
    /\ InitRequests
    /\ InitOthers
    /\ InitHub
    /\ InitCollections
    /\ trackings = << >>
    /\ now = At(1, 9)

OtpCancelRequest ==
    \E p \in Handlers, u \in Users, otp \in Otps :
        nReq < MaxOtpReq /\ CancelRequest(p, SubS, u, otp)

OtpCancelVerify ==
    \E p \in Handlers, u \in Users, otp \in Otps \cup {Null} :
        nReq < MaxOtpReq /\ CancelVerify(p, SubS, u, otp)

OtpReviveRequest ==
    \E p \in Handlers, u \in Users, otp \in Otps :
        nReq < MaxOtpReq /\ ReviveRequest(p, SubS, u, otp)

OtpReviveVerify ==
    \E p \in Handlers, u \in Users, otp \in Otps \cup {Null} :
        nReq < MaxOtpReq /\ ReviveVerify(p, SubS, u, otp)

OtpPutSubscription ==
    \E p \in Handlers, u \in Users, st \in {"active", "paused", "cancelled"} :
        nReq < MaxOtpReq /\ PutSubscription(p, SubS, u, st)

NextOtp ==
    \/ OtpCancelRequest
    \/ OtpCancelVerify
    \/ OtpReviveRequest
    \/ OtpReviveVerify
    \/ OtpPutSubscription
    \/ \E p \in Handlers : OtpSave(p)
    \/ HalfDayPasses

SpecOtp == InitOtp /\ [][NextOtp]_vars

\* the step is the save of a verify request op on subscription id by its
\* owner, who presented the stored, unexpired OTP, and it clears that OTP
VerifiedBy(id, op, stored, expires, cleared) ==
    \E p \in Handlers :
        /\ pc[p] = "otp_save" /\ pc'[p] = "idle"
        /\ req[p].op = op /\ req[p].orderId = id
        /\ req[p].body.userId = subscriptions[id].userId
        /\ ~OtpRejected(stored, expires, req[p].body.otp, now)
        /\ cleared = Null

\* C36: a subscription's status changes from active to cancelled only in the
\* save of a cancel-verify by its owner who presented the stored, unexpired
\* cancel OTP, and from cancelled to active only in the save of such a
\* revive-verify; the save clears the OTP, and no other step changes the
\* status.
C36_StatusOnlyByOtp ==
    [][ \A id \in DOMAIN subscriptions :
          subscriptions'[id].status # subscriptions[id].status
          => \/ /\ subscriptions[id].status = "active"
                /\ subscriptions'[id].status = "cancelled"
                /\ VerifiedBy(id, "cancel-verify", subscriptions[id].cancelOtp,
                              subscriptions[id].cancelOtpExpires,
                              subscriptions'[id].cancelOtp)
             \/ /\ subscriptions[id].status = "cancelled"
                /\ subscriptions'[id].status = "active"
                /\ VerifiedBy(id, "revive-verify", subscriptions[id].reviveOtp,
                              subscriptions[id].reviveOtpExpires,
                              subscriptions'[id].reviveOtp) ]_vars


----------------------------------------------------------------------------
(* startDriving of the driver simulator.  A route is the sequence of the
   distances, in metres, of its points to the destination.  Every firing of
   the interval starts a run of the async callback; a run is parked at the
   await of a request until the server has handled the request and answered.
   The server is reachable and handles the requests in flight in any order. *)

arrivalThresholdMeters == 50
nearbyThresholdMeters == 200

\* a request is sent: sent lists the requests in the order they were sent
Send(s, request) == [s EXCEPT !.sent = Append(@, request)]

\* async function startDriving, up to setInterval: the local variables, and
\* initializeTracking, which leaves the record at picking_up
StartDriving(routePoints) ==
    /\ sim.phase = "idle"
    /\ sim' = [phase |-> "driving", routePoints |-> routePoints,
               currentIndex |-> 0, currentStatus |-> "en_route",
               isNearby |-> FALSE, hasArrived |-> FALSE, interval |-> TRUE,
               runs |-> << >>, sent |-> << >>, status |-> "picking_up"]
    /\ UNCHANGED << routerVars, dense, codec, addr >>

\* the interval fires: the callback runs up to its first await
IntervalTick ==
    /\ sim.phase = "driving"
    /\ sim.interval
    /\ LET totalPoints == Len(sim.routePoints)
           distanceToDestination == sim.routePoints[sim.currentIndex + 1]
       IN  sim' =
             IF sim.currentIndex >= totalPoints \/ sim.hasArrived
             THEN [Send(sim, "delivered") EXCEPT
                      !.interval = FALSE,
                      !.runs = Append(@, [at |-> "delivered", status |-> "delivered"])]
             ELSE IF distanceToDestination <= arrivalThresholdMeters /\ ~sim.hasArrived
             THEN [Send(sim, "arrived") EXCEPT
                      !.hasArrived = TRUE, !.currentStatus = "arrived",
                      !.runs = Append(@, [at |-> "status", status |-> "arrived"])]
             ELSE IF distanceToDestination <= nearbyThresholdMeters /\ ~sim.isNearby
             THEN [Send(sim, "nearby") EXCEPT
                      !.isNearby = TRUE, !.currentStatus = "nearby",
                      !.runs = Append(@, [at |-> "status", status |-> "nearby"])]
             ELSE [Send(sim, "location") EXCEPT
                      !.runs = Append(@, [at |-> "location", status |-> Null])]
    /\ UNCHANGED << routerVars, dense, codec, addr >>

\* the server handles the status request of run r and answers; the run goes
\* on to socket.emit and updateLocationViaAPI. After process.exit only the
\* server's part is left.
StatusResponse(r) ==
    /\ sim.phase # "idle"
    /\ r \in DOMAIN sim.runs
    /\ sim.runs[r].at = "status"
    /\ sim' = IF sim.phase = "exited"
              THEN [sim EXCEPT !.status = sim.runs[r].status, !.runs[r].at = "done"]
              ELSE [Send(sim, "location") EXCEPT
                       !.status = sim.runs[r].status, !.runs[r].at = "location"]
    /\ UNCHANGED << routerVars, dense, codec, addr >>

\* the location request of run r is answered: currentIndex++
LocationResponse(r) ==
    /\ sim.phase # "idle"
    /\ r \in DOMAIN sim.runs
    /\ sim.runs[r].at = "location"
    /\ sim' = IF sim.phase = "exited"
              THEN [sim EXCEPT !.runs[r].at = "done"]
              ELSE [sim EXCEPT !.currentIndex = @ + 1, !.runs[r].at = "done"]
    /\ UNCHANGED << routerVars, dense, codec, addr >>

\* the server handles updateStatusViaAPI('delivered') and answers; the run
\* sets the timer of process.exit
DeliveredResponse(r) ==
    /\ sim.phase # "idle"
    /\ r \in DOMAIN sim.runs
    /\ sim.runs[r].at = "delivered"
    /\ sim' = [sim EXCEPT !.status = "delivered", !.runs[r].at = "exit"]
    /\ UNCHANGED << routerVars, dense, codec, addr >>

\* setTimeout(() => { socket.disconnect(); process.exit(0) }, 2000)
ProcessExit ==
    /\ sim.phase = "driving"
    /\ \E r \in DOMAIN sim.runs : sim.runs[r].at = "exit"
    /\ sim' = [sim EXCEPT !.phase = "exited"]
    /\ UNCHANGED << routerVars, dense, codec, addr >>

----------------------------------------------------------------------------
(* SpecDrive: one run of the simulator on a route that ends at the
   destination, near it, or away from it *)

MaxRuns == 6

SimRoutes ==
    { << 400, 150, 0 >>, << 400, 150, 40, 0 >>, << 150, 120 >>, << 40 >>,
      << 400, 300 >> }

InitDrive ==
    /\ InitRequests
    /\ InitOthers
    /\ InitHub
    /\ InitCollections
    /\ trackings = << >>
    /\ now = 1

Drive == \E routePoints \in SimRoutes : StartDriving(routePoints)

Tick == sim.phase = "driving" /\ Len(sim.runs) < MaxRuns /\ IntervalTick

NextDrive ==
    \/ Drive
    \/ Tick
    \/ \E r \in 1..MaxRuns : StatusResponse(r)
    \/ \E r \in 1..MaxRuns : LocationResponse(r)
    \/ \E r \in 1..MaxRuns : DeliveredResponse(r)
    \/ ProcessExit

SpecDrive == InitDrive /\ [][NextDrive]_vars

\* how often the simulator sent the request
TimesSent(request) ==
    Cardinality({i \in DOMAIN sim.sent : sim.sent[i] = request})

\* C37: the simulator sends delivered at most once, nearby and arrived at
\* most once each, and nothing after delivered: no location update or status
\* request of an earlier tick is sent once delivered has been; and once the
\* simulator has exited, the status the server holds is delivered.
C37_DeliveredLast ==
    sim.phase # "idle"
    => /\ TimesSent("delivered") <= 1
       /\ TimesSent("nearby") <= 1
       /\ TimesSent("arrived") <= 1
       /\ \A i \in DOMAIN sim.sent : sim.sent[i] = "delivered" => i = Len(sim.sent)
       /\ sim.phase = "exited" => sim.status = "delivered"

====
